---- MODULE Spec2Model ----
(***************************************************************************)
(* A model of the pwned_pwd pipeline:                                      *)
(*   PrefixIterator -> Downloader (workers) -> mpsc channel                *)
(*                  -> OrderedStream -> LocalStore (save / exists).        *)
(* Each component is translated from its source; the specifications at    *)
(* the end compose the components the properties are about.                *)
(***************************************************************************)
EXTENDS Integers, Sequences, FiniteSets, TLC

(* ------------------------------ bounds -------------------------------- *)

\* How many prefixes below MAX_PREFIX (inclusive of it) the model ranges over.
PrefixWindow == 4

\* How many items an arbitrary upstream may deliver to OrderedStream.
MaxUp == 4

\* The largest max_spawns (worker count) of a Downloader.
MaxWorkers == 2

\* How many prefixes the prefix iterator of a download yields at most.
MaxIter == 2

\* How many prefixes the prefix iterator of the pipeline yields at most.
MaxPipeIter == 3

\* The longest iterator of a download whose workers' locking is followed.
MaxLockIter == 3

\* How many records a store file holds at most.
MaxRecords == 4

\* How many records a file in any order holds at most.
MaxAnyRecords == 3

\* How many chunks a flattened stream holds at most.
MaxChunks == 2

\* How many records a chunk of a flattened stream holds at most.
MaxChunkRecords == 2

\* The largest value of the bytes of a record that vary in the model.
MaxByte == 1

\* How far from 0, from the maximum prefix and from the maximum u32 the
\* values given to create and try_from lie.
MaxOff == 3

\* How many calls of next past the iterator's end the model makes.
MaxPastEnd == 2

\* The longest stream of records given to save.
MaxSaved == 2

\* How many times save runs on one store.
MaxSaves == 2

\* How many records the stream of a save holds at most when an exists runs
\* at the same time.
MaxReadSaved == 2

\* How many records the stream of each of two saves that run at the same
\* time holds at most.
MaxTwoSaved == 1

(* ------------------------------ Prefix -------------------------------- *)

\* Option<T>: None is the empty sequence, Some(v) the one-element sequence.
None == << >>

Some(v) == << v >>

\* Prefix::MAX_PREFIX = 0xFFFFF
MAX_PREFIX == 1048575

\* The prefixes the model ranges over: the top of the prefix space, so that
\* the maximum prefix (where next() is None) is among them.
Prefixes == (MAX_PREFIX - PrefixWindow + 1)..MAX_PREFIX

\* A create that rejects the maximum prefix too.
PrefixCreateBelowMax(v) == IF v >= MAX_PREFIX THEN None ELSE Some(v)

\* Prefix::create
PrefixCreate(v) == IF v > MAX_PREFIX THEN None ELSE Some(v)

\* TryFrom<u32> for Prefix: Err(OutOfRange) above the maximum, else Ok.
TryFromU32(value) ==
    IF value > MAX_PREFIX THEN << "Err", "OutOfRange" >> ELSE << "Ok", value >>

\* Prefix::forward
PrefixForward(p, v) == PrefixCreate(p + v)

\* A next() that does not advance.
PrefixNextStuck(p) == Some(p)

\* A next() that wraps around to the first prefix after the maximum one.
PrefixNextWraps(p) == IF p = MAX_PREFIX THEN Some(0) ELSE Some(p + 1)

\* Prefix::next
PrefixNext(p) == PrefixForward(p, 1)

(* ------------------------------ state --------------------------------- *)

VARIABLES
    \* the mpsc channel between the upstream (downloader) and its consumer
    chan,                   \* queued items, oldest first
    chanClosed,             \* the channel is closed (no send succeeds any more)
    delivered,              \* history: every item ever enqueued, in order
    \* OrderedStream
    first_expected_prefix,
    expected_prefix,        \* Option<Prefix>
    buf,                    \* BTreeMap<Prefix, Chunk>: a function on its keys
    out,                    \* history: every item OrderedStream yielded
    osState,                \* "idle" | "pending" | "ended": the consumer's demand
    \* Downloader::download
    max_spawns,
    spawned,                \* how many of the worker futures are spawned
    downloadDone,           \* download() has returned the stream
    iterNext,               \* PrefixIterator.next: Option<Prefix>
    running_tasks,          \* AtomicU16
    prefixes_processed,     \* AtomicU32
    pc,                     \* each worker's position
    held,                   \* each worker's `prefix`: Option<Prefix>
    cause,                  \* history: why each worker left its loop
    sawClosed,              \* history: the worker's last send met a closed channel
    dequeued,               \* history: the prefixes taken from the iterator
    deqAfterDrop,           \* history: prefixes each worker took after the drop
    prefixes_guard,         \* the worker that holds the lock on `prefixes`
    deqAfterClose,          \* history: prefixes each worker took after a
                            \* worker's close_channel
    \* the consumer of the downloader's stream
    cons,                   \* "reading" | "eos" | "dropped"
    recvd,                  \* history: the items the consumer received
    \* exists (the binary search on the store's file)
    fileData,               \* the bytes of the file
    x,                      \* the 20 bytes looked for
    size, left, right,      \* the locals of exists
    exPc,                   \* "start" | "loop" | "done"
    exResult,               \* "none" | "Ok(true)" | "Ok(false)" | "Err"
    iterations,             \* history: the iterations of the loop that ran
    \* LocalStore and its save
    existence_behaviour,    \* "RemoveOldThenCreateNew" | "DownloadThenReplace"
    download_path,          \* Option<PathBuf> of DownloadThenReplace
    buff_capacity,          \* Option<usize>
    fs,                     \* the file system: path -> Option<bytes>
    pwd_file,               \* Option<PwdFile>: path, move_on_complete_to and
                            \* `file`, the bytes its BufWriter holds back
    stream,                 \* what is left of the stream `s` given to save
    savePc,                 \* "idle" | "open" | "write" | "done"
    saveResult,             \* "none" | "Ok" | "Err"
    records,                \* history: the whole stream given to save
    fsBefore,               \* history: the file system when save was called
    failedAt,               \* history: "none" | "remove" | "create" | "write"
                            \*          | "flush" | "rename"
    saves,                  \* history: the final file after each earlier save
    \* calls of Prefix::create, TryFrom<u32> and PrefixIterator::next
    createArg,              \* the u32 given to create and to try_from
    createResult,           \* Option<Prefix>
    tryFromResult,          \* << "Ok", v >> | << "Err", "OutOfRange" >>
    pfDone,                 \* which of "create", "try_from" have returned
    iterFrom,               \* history: the prefix the iterator started at
    yielded,                \* history: what each call of next returned
    forwardSelf,            \* the prefix forward (or +) is called on
    forwardArg,             \* its u32 argument, as two 16-bit halves << hi, lo >>
    forwardResult,          \* "none" | "panic" | Option<Prefix>
    countResult,            \* what Prefix::count() returned
    \* a call of Parser::parse
    parserPrefix,           \* Parser.prefix
    line,                   \* the bytes of the str given to parse
    parseResult,            \* Result<PwnedPwd, ParseError>
    \* the chunks of the ordered stream, flattened to records
    chunks,                 \* the chunks still to flatten, in stream order
    flat,                   \* history: the records flattened so far
    \* calls of save and exists that run at the same time
    dir,                    \* the directory: the inode each path names, if any
    inodes,                 \* the bytes of each inode, by its number
    saver,                  \* each save: its store, its stream and its PwdFile
    handle,                 \* the inode of the File that exists opened, 0: none
    seen                    \* history: the file as exists saw it at each seek
                            \*          and read

chVars == << chan, chanClosed, delivered >>

osVars == << first_expected_prefix, expected_prefix, buf, out, osState >>

lockVars == << prefixes_guard, deqAfterClose >>

dlVars == << max_spawns, spawned, downloadDone, iterNext, running_tasks,
             prefixes_processed, pc, held, cause, sawClosed, dequeued,
             deqAfterDrop, lockVars >>

consVars == << cons, recvd >>

exVars == << fileData, x, size, left, right, exPc, exResult, iterations >>

stVars == << existence_behaviour, download_path, buff_capacity, fs, pwd_file,
             stream, savePc, saveResult, records, fsBefore, failedAt, saves >>

fwVars == << forwardSelf, forwardArg, forwardResult, countResult >>

pfVars == << createArg, createResult, tryFromResult, pfDone, iterFrom, yielded,
             fwVars >>

flVars == << chunks, flat >>

paVars == << parserPrefix, line, parseResult, flVars >>

ccVars == << dir, inodes, saver, handle, seen >>

\* What the downloader, OrderedStream and exists never touch.
libVars == << stVars, pfVars, paVars, ccVars >>

vars == << chVars, osVars, dlVars, consVars, exVars, libVars >>

(* ------------------------------ items --------------------------------- *)

\* Result<Chunk, DownloadError> as carried by the channel. seq numbers the
\* items in the order they were enqueued, so that two chunks of the same
\* prefix are different chunks.
ChunkItem(p, n) == [kind |-> "chunk", prefix |-> p, seq |-> n]

ErrItem(p, n) == [kind |-> "err", prefix |-> p, seq |-> n]

\* The width of a record: the 20 bytes of a SHA-1.
RecordLen == 20

\* No search is running.
NoExists ==
    /\ fileData = << >>
    /\ x = [i \in 1..RecordLen |-> 0]
    /\ size = 0
    /\ left = 0
    /\ right = 0
    /\ exPc = "start"
    /\ exResult = "none"
    /\ iterations = 0

\* LocalStore.file_path, the final path of the store's file.
file_path == "file_path"

\* `self.file_path.with_file_name("download_tmp")`: the default temp path.
DownloadTmp == "download_tmp"

\* The paths of the model's file system.
Paths == {file_path, DownloadTmp}

\* The file_path of a second LocalStore, in the same directory.
other_file_path == "other_file_path"

\* The paths of the directory that concurrent calls work in.
DirPaths == {file_path, other_file_path, DownloadTmp}

\* The calls of save that may run at the same time.
Savers == {1, 2}

\* A LocalStore on which save is not called.
IdleSaver ==
    [file_path |-> other_file_path, download_path |-> None,
     buff_capacity |-> None, records |-> << >>, stream |-> << >>,
     pwd_file |-> None, pc |-> "idle", result |-> "none"]

\* No calls run at the same time.
NoConc ==
    /\ dir = [p \in DirPaths |-> None]
    /\ inodes = << >>
    /\ saver = [s \in Savers |-> IdleSaver]
    /\ handle = 0
    /\ seen = << >>

\* No save is running.
NoSave ==
    /\ NoConc
    /\ existence_behaviour = "DownloadThenReplace"
    /\ download_path = None
    /\ buff_capacity = None
    /\ fs = [p \in Paths |-> None]
    /\ pwd_file = None
    /\ stream = << >>
    /\ savePc = "idle"
    /\ saveResult = "none"
    /\ records = << >>
    /\ fsBefore = [p \in Paths |-> None]
    /\ failedAt = "none"
    /\ saves = << >>

\* No call on a Prefix is made outside the downloader.
\* forward and count have not been called.
NoForward ==
    /\ forwardSelf = 0
    /\ forwardArg = << 0, 0 >>
    /\ forwardResult = "none"
    /\ countResult = 0

NoPrefixCalls ==
    /\ createArg = 0
    /\ createResult = None
    /\ tryFromResult = << "Ok", 0 >>
    /\ pfDone = {}
    /\ iterFrom = 0
    /\ yielded = << >>
    /\ NoForward

\* The result of parse before parse is called.
NotParsed == [kind |-> "none", error |-> "none", index |-> 0,
              sha1 |-> << >>, count |-> << 0, 0 >>]

\* No stream of chunks is flattened.
NoFlatten == chunks = << >> /\ flat = << >>

\* No line is parsed.
NoParse ==
    /\ parserPrefix = 0
    /\ line = << >>
    /\ parseResult = NotParsed
    /\ NoFlatten

\* Nothing but the downloader, OrderedStream and exists is in use.
NoLib == NoSave /\ NoPrefixCalls /\ NoParse

(* --------------------------- OrderedStream ---------------------------- *)

\* An insert that loses the chunk.
BufInsertDrops(b, item) == b

\* BTreeMap::insert
BufInsert(b, item) ==
    [p \in (DOMAIN b) \cup {item.prefix} |-> IF p = item.prefix THEN item ELSE b[p]]

\* A remove that hands out the value and leaves the key in the map.
BufRemoveKeeps(b, p) == b

\* BTreeMap::remove (the map without the key)
BufRemove(b, p) == [q \in (DOMAIN b) \ {p} |-> b[q]]

\* A guard that compares with the first expected prefix, not the current one.
IsExpectedFirst(exp, item) == item.prefix = first_expected_prefix

\* A guard that also takes any later chunk for the expected one.
IsExpectedOrLater(exp, item) == exp[1] <= item.prefix

\* The guard `expected_prefix != &chunk.prefix` negated: the chunk is the
\* expected one.
IsExpected(exp, item) == exp[1] = item.prefix

\* The loop of poll_next over the items the upstream has ready (q); closed
\* tells whether the upstream has ended. Yields the new expected_prefix, buf,
\* the items left in the upstream and the poll's result.
RECURSIVE PollLoop(_, _, _, _)
PollLoop(exp, b, q, closed) ==
    IF q = << >>
    THEN [expected |-> exp, buf |-> b, chan |-> q,
          result |-> [kind |-> IF closed THEN "End" ELSE "Pending"]]
    ELSE LET item == Head(q) IN
         IF item.kind = "chunk"
         THEN IF exp # None /\ ~IsExpected(exp, item)
              THEN PollLoop(exp, BufInsert(b, item), Tail(q), closed)
              ELSE IF exp # None
                   THEN [expected |-> PrefixNext(item.prefix), buf |-> b,
                         chan |-> Tail(q),
                         result |-> [kind |-> "chunk", prefix |-> item.prefix,
                                     seq |-> item.seq, exp |-> exp]]
                   ELSE [expected |-> exp, buf |-> b, chan |-> Tail(q),
                         result |-> [kind |-> "Discontinuous"]]
         ELSE [expected |-> exp, buf |-> b, chan |-> Tail(q),
               result |-> [kind |-> "DownloadError", prefix |-> item.prefix,
                           seq |-> item.seq]]

\* OrderedStream::poll_next: first the buffered expected chunk, else the loop.
PollNext(exp, b, q, closed) ==
    IF exp # None /\ exp[1] \in DOMAIN b
    THEN [expected |-> PrefixNext(exp[1]), buf |-> BufRemove(b, exp[1]),
          chan |-> q,
          result |-> [kind |-> "chunk", prefix |-> b[exp[1]].prefix,
                      seq |-> b[exp[1]].seq, exp |-> exp]]
    ELSE PollLoop(exp, b, q, closed)

\* The consumer polls OrderedStream (a new demand, or a demand that was
\* pending); a stream that has yielded its end is not polled again.
OSPoll ==
    /\ osState # "ended"
    /\ LET r == PollNext(expected_prefix, buf, chan, chanClosed) IN
       /\ expected_prefix' = r.expected
       /\ buf' = r.buf
       /\ chan' = r.chan
       /\ out' = IF r.result.kind \in {"Pending", "End"} THEN out
                 ELSE Append(out, r.result)
       /\ osState' = CASE r.result.kind = "Pending" -> "pending"
                       [] r.result.kind = "End" -> "ended"
                       [] OTHER -> "idle"
    /\ UNCHANGED << chanClosed, delivered, first_expected_prefix, dlVars,
                    consVars, exVars, libVars >>

(* ----------------------------- Downloader ---------------------------- *)

\* The worker futures download() may create; one more than the largest
\* max_spawns, so that a loop that spawns too many shows.
Tasks == 1..(MaxWorkers + 1)

\* The workers whose future has been spawned.
Spawned == 1..spawned

\* A spawn loop that runs once too often (0..=max_spawns).
SpawnMoreInclusive == spawned <= max_spawns

\* `for i in 0..max_spawns`: there is a future left to spawn.
SpawnMore == spawned < max_spawns

\* An iterator that yields its current prefix again.
IterStay(cur) == cur

\* An iterator that starts over at the maximum prefix once it has ended.
IterRestart(cur) == IF cur = None THEN Some(MAX_PREFIX) ELSE PrefixNext(cur[1])

\* PrefixIterator::next: self.next = self.next.and_then(|v| v.next())
IterAdvance(cur) == IF cur = None THEN None ELSE PrefixNext(cur[1])

\* A worker that asks the exhausted iterator again instead of leaving.
ExhaustedRetry == "dequeue"

\* `None => break`: where a worker goes when the iterator is exhausted.
ExhaustedBreak == "exit"

\* A sender whose send succeeds whatever the channel's state.
SendAlways == TRUE

\* UnboundedSender::send succeeds only on a channel that is not closed (by
\* close_channel, by the sender's close, or by the receiver's drop).
SendOpen == ~chanClosed

\* A close_channel that leaves the channel as it is.
CloseChannelNoop == chanClosed

\* sender.close_channel(): the channel's state after it.
CloseChannel == TRUE

\* A worker that closes the channel on its way out whoever else is running.
LastWorkerOrNot == running_tasks >= 0

\* `running_tasks.load(SeqCst) == 0`
LastWorker == running_tasks = 0

\* A sender that download() keeps alive: it is never dropped.
SenderKept(p, d) == FALSE

\* The shared sender (Arc<Mutex<UnboundedSender>>) is dropped once download()
\* has returned and every worker future has completed; dropping the only
\* sender closes the channel. p is the workers' positions, d downloadDone.
SenderDropped(p, d) == d /\ \A w \in Spawned : p[w] = "done"

\* tokio::spawn(f) of the next worker future.
Spawn ==
    /\ ~downloadDone
    /\ SpawnMore
    /\ spawned' = spawned + 1
    /\ pc' = [pc EXCEPT ![spawned + 1] = "start"]
    /\ UNCHANGED << chVars, osVars, consVars, exVars, libVars, max_spawns, downloadDone,
                    iterNext, running_tasks, prefixes_processed, held, cause,
                    sawClosed, dequeued, deqAfterDrop, lockVars >>

\* download() returns pwd_stream; its own handle on the sender is dropped.
DownloadReturn ==
    /\ ~downloadDone
    /\ ~SpawnMore
    /\ downloadDone' = TRUE
    /\ chanClosed' = (chanClosed \/ SenderDropped(pc, TRUE))
    /\ UNCHANGED << chan, delivered, osVars, consVars, exVars, libVars, max_spawns, spawned,
                    iterNext, running_tasks, prefixes_processed, pc, held,
                    cause, sawClosed, dequeued, deqAfterDrop, lockVars >>

\* running_tasks.fetch_add(1, SeqCst)
WorkerStart(w) ==
    /\ pc[w] = "start"
    /\ running_tasks' = (running_tasks + 1) % 65536
    /\ pc' = [pc EXCEPT ![w] = "dequeue"]
    /\ UNCHANGED << chVars, osVars, consVars, exVars, libVars, max_spawns, spawned,
                    downloadDone, iterNext, prefixes_processed, held, cause,
                    sawClosed, dequeued, deqAfterDrop, lockVars >>

\* prefixes.lock().await; prefixes_guard.next(): the next prefix, or the end
\* of the loop when the iterator is exhausted.
WorkerDequeue(w) ==
    /\ pc[w] = "dequeue"
    /\ iterNext' = IterAdvance(iterNext)
    /\ IF iterNext = None
       THEN /\ pc' = [pc EXCEPT ![w] = ExhaustedBreak]
            /\ cause' = [cause EXCEPT ![w] = "exhausted"]
            /\ UNCHANGED << held, dequeued, deqAfterDrop >>
       ELSE /\ pc' = [pc EXCEPT ![w] = "fetch"]
            /\ held' = [held EXCEPT ![w] = iterNext]
            /\ dequeued' = Append(dequeued, [prefix |-> iterNext[1], by |-> w])
            /\ deqAfterDrop' =
                 IF cons = "dropped"
                 THEN [deqAfterDrop EXCEPT ![w] = @ + 1]
                 ELSE deqAfterDrop
            /\ UNCHANGED cause
    /\ UNCHANGED << chVars, osVars, consVars, exVars, libVars, max_spawns, spawned,
                    downloadDone, running_tasks, prefixes_processed,
                    sawClosed, lockVars >>

\* download_by_prefix returns Ok(chunk).
FetchOk(w) ==
    /\ pc[w] = "fetch"
    /\ pc' = [pc EXCEPT ![w] = "send"]
    /\ UNCHANGED << chVars, osVars, consVars, exVars, libVars, max_spawns, spawned,
                    downloadDone, iterNext, running_tasks, prefixes_processed,
                    held, cause, sawClosed, dequeued, deqAfterDrop, lockVars >>

\* download_by_prefix returns Err(e): the request, the read of the body or
\* the parse of a line failed (DownloadErrorKind::Reqwest or ::Parse; the
\* worker treats both alike).
FetchErr(w) ==
    /\ pc[w] = "fetch"
    /\ pc' = [pc EXCEPT ![w] = "fail"]
    /\ cause' = [cause EXCEPT ![w] = "FetchError"]
    /\ UNCHANGED << chVars, osVars, consVars, exVars, libVars, max_spawns, spawned,
                    downloadDone, iterNext, running_tasks, prefixes_processed,
                    held, sawClosed, dequeued, deqAfterDrop, lockVars >>

\* The Ok arm: sender.lock().await; sender.send(Ok(chunk)).await; on a send
\* error the worker leaves its loop, else it counts the prefix and loops
\* (passwords_processed, which no code reads, is left out: the model's chunks
\* carry no passwords).
SendChunk(w) ==
    /\ pc[w] = "send"
    /\ IF SendOpen
       THEN /\ chan' = Append(chan, ChunkItem(held[w][1], Len(delivered) + 1))
            /\ delivered' =
                 Append(delivered, ChunkItem(held[w][1], Len(delivered) + 1))
            /\ prefixes_processed' = prefixes_processed + 1
            /\ pc' = [pc EXCEPT ![w] = "dequeue"]
            /\ UNCHANGED << cause, sawClosed >>
       ELSE /\ pc' = [pc EXCEPT ![w] = "exit"]
            /\ cause' = [cause EXCEPT ![w] = "SendError"]
            /\ sawClosed' = [sawClosed EXCEPT ![w] = TRUE]
            /\ UNCHANGED << chan, delivered, prefixes_processed >>
    /\ UNCHANGED << chanClosed, osVars, consVars, exVars, libVars, max_spawns, spawned,
                    downloadDone, iterNext, running_tasks, held, dequeued,
                    deqAfterDrop, lockVars >>

\* The Err arm: sender.lock().await; let _ = sender.send(Err(e)).await;
\* sender.close_channel(); break.
SendErr(w) ==
    /\ pc[w] = "fail"
    /\ IF SendOpen
       THEN /\ chan' = Append(chan, ErrItem(held[w][1], Len(delivered) + 1))
            /\ delivered' =
                 Append(delivered, ErrItem(held[w][1], Len(delivered) + 1))
            /\ UNCHANGED sawClosed
       ELSE /\ sawClosed' = [sawClosed EXCEPT ![w] = TRUE]
            /\ UNCHANGED << chan, delivered >>
    /\ chanClosed' = CloseChannel
    /\ pc' = [pc EXCEPT ![w] = "exit"]
    /\ UNCHANGED << osVars, consVars, exVars, libVars, max_spawns, spawned, downloadDone,
                    iterNext, running_tasks, prefixes_processed, held, cause,
                    dequeued, deqAfterDrop, lockVars >>

\* running_tasks.fetch_sub(1, SeqCst)
WorkerDecr(w) ==
    /\ pc[w] = "exit"
    /\ running_tasks' = (running_tasks - 1) % 65536
    /\ pc' = [pc EXCEPT ![w] = "final"]
    /\ UNCHANGED << chVars, osVars, consVars, exVars, libVars, max_spawns, spawned,
                    downloadDone, iterNext, prefixes_processed, held, cause,
                    sawClosed, dequeued, deqAfterDrop, lockVars >>

\* sender.lock().await; if running_tasks.load(SeqCst) == 0 { sender.close() };
\* then the future completes and drops its handle on the sender.
WorkerFinal(w) ==
    /\ pc[w] = "final"
    /\ pc' = [pc EXCEPT ![w] = "done"]
    /\ chanClosed' = (chanClosed \/ LastWorker \/ SenderDropped(pc', downloadDone))
    /\ UNCHANGED << chan, delivered, osVars, consVars, exVars, libVars, max_spawns, spawned,
                    downloadDone, iterNext, running_tasks, prefixes_processed,
                    held, cause, sawClosed, dequeued, deqAfterDrop, lockVars >>

\* One step of worker w.
WorkerStep(w) ==
    \/ WorkerStart(w)
    \/ WorkerDequeue(w)
    \/ FetchOk(w)
    \/ FetchErr(w)
    \/ SendChunk(w)
    \/ SendErr(w)
    \/ WorkerDecr(w)
    \/ WorkerFinal(w)

(* -------------- the worker's dequeue, lock by lock ------------------- *)

\* A guard that lives on after the block, to the end of the loop's body.
GuardKept(w) == Some(w)

\* The block `{ let mut prefixes_guard = ...; prefixes_guard.next() }` ends:
\* its guard is dropped and the lock on `prefixes` is free.
GuardDropped(w) == None

\* Some worker has run the Err arm's close_channel (the fail-fast close).
FailFastClosed ==
    \E v \in Tasks : cause[v] = "FetchError" /\ pc[v] \in {"exit", "final", "done"}

\* prefixes.lock().await completes: the lock was free and worker w holds it.
WorkerLock(w) ==
    /\ pc[w] = "dequeue"
    /\ prefixes_guard = None
    /\ prefixes_guard' = Some(w)
    /\ pc' = [pc EXCEPT ![w] = "locked"]
    /\ UNCHANGED << chVars, osVars, consVars, exVars, libVars, max_spawns,
                    spawned, downloadDone, iterNext, running_tasks,
                    prefixes_processed, held, cause, sawClosed, dequeued,
                    deqAfterDrop, deqAfterClose >>

\* prefixes_guard.next() under the lock, then the end of the block: the next
\* prefix, or the end of the loop when the iterator is exhausted.
WorkerNext(w) ==
    /\ pc[w] = "locked"
    /\ prefixes_guard = Some(w)
    /\ iterNext' = IterAdvance(iterNext)
    /\ prefixes_guard' = GuardDropped(w)
    /\ IF iterNext = None
       THEN /\ pc' = [pc EXCEPT ![w] = ExhaustedBreak]
            /\ cause' = [cause EXCEPT ![w] = "exhausted"]
            /\ UNCHANGED << held, dequeued, deqAfterDrop, deqAfterClose >>
       ELSE /\ pc' = [pc EXCEPT ![w] = "fetch"]
            /\ held' = [held EXCEPT ![w] = iterNext]
            /\ dequeued' = Append(dequeued, [prefix |-> iterNext[1], by |-> w])
            /\ deqAfterDrop' =
                 IF cons = "dropped"
                 THEN [deqAfterDrop EXCEPT ![w] = @ + 1]
                 ELSE deqAfterDrop
            /\ deqAfterClose' =
                 IF FailFastClosed
                 THEN [deqAfterClose EXCEPT ![w] = @ + 1]
                 ELSE deqAfterClose
            /\ UNCHANGED cause
    /\ UNCHANGED << chVars, osVars, consVars, exVars, libVars, max_spawns,
                    spawned, downloadDone, running_tasks, prefixes_processed,
                    sawClosed >>

(* ---------------- the consumer of the downloader's stream ------------- *)

\* UnboundedReceiver::poll_next by a consumer that reads the stream itself:
\* the oldest queued item, or the end once the channel is closed and empty.
ConsRecv ==
    /\ downloadDone
    /\ cons = "reading"
    /\ \/ /\ chan # << >>
          /\ recvd' = Append(recvd, Head(chan))
          /\ chan' = Tail(chan)
          /\ UNCHANGED cons
       \/ /\ chan = << >>
          /\ chanClosed
          /\ cons' = "eos"
          /\ UNCHANGED << chan, recvd >>
    /\ UNCHANGED << chanClosed, delivered, osVars, dlVars, exVars, libVars >>

\* The consumer drops the stream: Receiver::drop closes the channel and
\* drains the queued items.
ConsDrop ==
    /\ downloadDone
    /\ cons = "reading"
    /\ cons' = "dropped"
    /\ chanClosed' = TRUE
    /\ chan' = << >>
    /\ UNCHANGED << delivered, recvd, osVars, dlVars, exVars, libVars >>

\* No worker exists and nothing consumes a download.
NoWorkers ==
    /\ max_spawns = 0
    /\ spawned = 0
    /\ downloadDone = FALSE
    /\ running_tasks = 0
    /\ prefixes_processed = 0
    /\ pc = [w \in Tasks |-> "unspawned"]
    /\ held = [w \in Tasks |-> None]
    /\ cause = [w \in Tasks |-> "none"]
    /\ sawClosed = [w \in Tasks |-> FALSE]
    /\ dequeued = << >>
    /\ deqAfterDrop = [w \in Tasks |-> 0]
    /\ prefixes_guard = None
    /\ deqAfterClose = [w \in Tasks |-> 0]
    /\ cons = "reading"
    /\ recvd = << >>

\* No download is running (OrderedStream is fed by some other upstream).
NoDownload == NoWorkers /\ iterNext = None

\* The prefix iterators that yield at most n prefixes: PrefixIterator from a
\* prefix to the maximum prefix, or an exhausted one.
Iterators(n) == {Some(p) : p \in (MAX_PREFIX - n + 1)..MAX_PREFIX} \cup {None}

\* The start of download(prefixes) for one of the iterators its: the channel
\* is created, no future is spawned.
InitDownload(its) ==
    /\ chan = << >>
    /\ chanClosed = FALSE
    /\ delivered = << >>
    /\ max_spawns \in 0..MaxWorkers
    /\ spawned = 0
    /\ downloadDone = FALSE
    /\ iterNext \in its
    /\ running_tasks = 0
    /\ prefixes_processed = 0
    /\ pc = [w \in Tasks |-> "unspawned"]
    /\ held = [w \in Tasks |-> None]
    /\ cause = [w \in Tasks |-> "none"]
    /\ sawClosed = [w \in Tasks |-> FALSE]
    /\ dequeued = << >>
    /\ deqAfterDrop = [w \in Tasks |-> 0]
    /\ prefixes_guard = None
    /\ deqAfterClose = [w \in Tasks |-> 0]
    /\ cons = "reading"
    /\ recvd = << >>
    /\ NoExists
    /\ NoLib

\* No OrderedStream is in use (the consumer reads the downloader's stream).
NoOrderedStream ==
    /\ first_expected_prefix = MAX_PREFIX
    /\ expected_prefix = Some(MAX_PREFIX)
    /\ buf = << >>
    /\ out = << >>
    /\ osState = "idle"

InitDL == InitDownload(Iterators(MaxIter)) /\ NoOrderedStream

\* A download whose consumer reads the stream and may drop it.
NextDL ==
    \/ Spawn
    \/ DownloadReturn
    \/ \E w \in Tasks : WorkerStep(w)
    \/ ConsRecv
    \/ ConsDrop

\* The scheduling of download(): it runs to its return, the runtime runs
\* every spawned future, and every fetch completes.
FairDownload ==
    /\ WF_vars(Spawn \/ DownloadReturn)
    /\ \A w \in Tasks : WF_vars(WorkerStep(w))

SpecDL == InitDL /\ [][NextDL]_vars /\ FairDownload

\* A download whose consumer keeps reading the stream to its end.
NextDLKeep ==
    \/ Spawn
    \/ DownloadReturn
    \/ \E w \in Tasks : WorkerStep(w)
    \/ ConsRecv

SpecDLKeep == InitDL /\ [][NextDLKeep]_vars /\ FairDownload /\ WF_vars(ConsRecv)

\* A download in which every fetch succeeds and the consumer reads until the
\* stream ends.
NextDLOk ==
    \/ Spawn
    \/ DownloadReturn
    \/ \E w \in Tasks :
          \/ WorkerStart(w)
          \/ WorkerDequeue(w)
          \/ FetchOk(w)
          \/ SendChunk(w)
          \/ WorkerDecr(w)
          \/ WorkerFinal(w)
    \/ ConsRecv

SpecDLOk == InitDL /\ [][NextDLOk]_vars

\* A download whose workers take and release the lock on `prefixes` in
\* steps of their own; fetches may fail, and the stream is kept and not read.
NextDLLock ==
    \/ Spawn
    \/ DownloadReturn
    \/ \E w \in Tasks :
          \/ WorkerStart(w)
          \/ WorkerLock(w)
          \/ WorkerNext(w)
          \/ FetchOk(w)
          \/ FetchErr(w)
          \/ SendChunk(w)
          \/ SendErr(w)
          \/ WorkerDecr(w)
          \/ WorkerFinal(w)

\* download() of an iterator long enough to have prefixes left when every
\* worker has left.
InitDLLock == InitDownload(Iterators(MaxLockIter)) /\ NoOrderedStream

SpecDLLock == InitDLLock /\ [][NextDLLock]_vars

(* ------------- Downloader -> OrderedStream (the pipeline) ------------- *)

\* The consumer polls the OrderedStream built over the stream download()
\* returned.
PipePoll == downloadDone /\ OSPoll

\* download(first.into_iter()) ordered from first, with at least one worker.
InitPipe ==
    /\ InitDownload(Iterators(MaxPipeIter))
    /\ max_spawns >= 1
    /\ iterNext # None
    /\ first_expected_prefix = iterNext[1]
    /\ expected_prefix = Some(first_expected_prefix)
    /\ buf = << >>
    /\ out = << >>
    /\ osState = "idle"

\* Every fetch succeeds and the consumer keeps polling.
NextPipe ==
    \/ Spawn
    \/ DownloadReturn
    \/ \E w \in Tasks :
         \/ WorkerStart(w)
         \/ WorkerDequeue(w)
         \/ FetchOk(w)
         \/ SendChunk(w)
         \/ WorkerDecr(w)
         \/ WorkerFinal(w)
    \/ PipePoll

SpecPipe == InitPipe /\ [][NextPipe]_vars

(* ------------------ an arbitrary upstream of OrderedStream ------------ *)

\* The upstream delivers one more item: a chunk of any prefix, or an error
\* (OrderedStream never reads the prefix a DownloadError carries).
UpstreamSend ==
    /\ ~chanClosed
    /\ Len(delivered) < MaxUp
    /\ \E item \in {ChunkItem(p, Len(delivered) + 1) : p \in Prefixes}
                    \cup {ErrItem(first_expected_prefix, Len(delivered) + 1)} :
         /\ chan' = Append(chan, item)
         /\ delivered' = Append(delivered, item)
    /\ UNCHANGED << chanClosed, osVars, dlVars, consVars, exVars, libVars >>

\* The upstream ends.
UpstreamEnd ==
    /\ ~chanClosed
    /\ chanClosed' = TRUE
    /\ UNCHANGED << chan, delivered, osVars, dlVars, consVars, exVars, libVars >>

\* OrderedStream::new over an upstream that has delivered nothing yet.
InitOS ==
    /\ chan = << >>
    /\ chanClosed = FALSE
    /\ delivered = << >>
    /\ first_expected_prefix \in Prefixes
    /\ expected_prefix = Some(first_expected_prefix)
    /\ buf = << >>
    /\ out = << >>
    /\ osState = "idle"
    /\ NoDownload
    /\ NoExists
    /\ NoLib

NextOS == UpstreamSend \/ UpstreamEnd \/ OSPoll

SpecOS == InitOS /\ [][NextOS]_vars

(* ------------------ OrderedStream of the crate root ------------------- *)

\* poll_next of the OrderedStream in the crate root: first the buffered
\* expected chunk, else one item of the upstream; a chunk that is not the
\* expected one is buffered and the poll returns Pending, a chunk that comes
\* when nothing is expected panics, an error is passed on as it is.
RootPollNext(exp, b, q, closed) ==
    IF exp # None /\ exp[1] \in DOMAIN b
    THEN [expected |-> PrefixNext(exp[1]), buf |-> BufRemove(b, exp[1]),
          chan |-> q,
          result |-> [kind |-> "chunk", prefix |-> b[exp[1]].prefix,
                      seq |-> b[exp[1]].seq, exp |-> exp]]
    ELSE IF q = << >>
    THEN [expected |-> exp, buf |-> b, chan |-> q,
          result |-> [kind |-> IF closed THEN "End" ELSE "Pending"]]
    ELSE LET item == Head(q) IN
         IF item.kind = "chunk"
         THEN IF exp # None /\ ~IsExpected(exp, item)
              THEN [expected |-> exp, buf |-> BufInsert(b, item),
                    chan |-> Tail(q), result |-> [kind |-> "Pending"]]
              ELSE IF exp # None
                   THEN [expected |-> PrefixNext(item.prefix), buf |-> b,
                         chan |-> Tail(q),
                         result |-> [kind |-> "chunk", prefix |-> item.prefix,
                                     seq |-> item.seq, exp |-> exp]]
                   ELSE [expected |-> exp, buf |-> b, chan |-> Tail(q),
                         result |-> [kind |-> "panic"]]
         ELSE [expected |-> exp, buf |-> b, chan |-> Tail(q),
               result |-> [kind |-> "Err", prefix |-> item.prefix,
                           seq |-> item.seq]]

\* The consumer polls the OrderedStream of the crate root; a stream that has
\* yielded its end or has panicked is not polled again.
RootPoll ==
    /\ osState \notin {"ended", "panicked"}
    /\ LET r == RootPollNext(expected_prefix, buf, chan, chanClosed) IN
       /\ expected_prefix' = r.expected
       /\ buf' = r.buf
       /\ chan' = r.chan
       /\ out' = IF r.result.kind \in {"Pending", "End", "panic"} THEN out
                 ELSE Append(out, r.result)
       /\ osState' = CASE r.result.kind = "Pending" -> "pending"
                       [] r.result.kind = "End" -> "ended"
                       [] r.result.kind = "panic" -> "panicked"
                       [] OTHER -> "idle"
    /\ UNCHANGED << chanClosed, delivered, first_expected_prefix, dlVars,
                    consVars, exVars, libVars >>

NextRootOS == UpstreamSend \/ UpstreamEnd \/ RootPoll

SpecRootOS == InitOS /\ [][NextRootOS]_vars

(* ------------------------- LocalStore: exists ------------------------- *)

\* The records of the model: 20 bytes of which the first and the last vary.
Records ==
    {[i \in 1..RecordLen |-> IF i = 1 THEN a ELSE IF i = RecordLen THEN b ELSE 0] :
         a \in 0..MaxByte, b \in 0..MaxByte}

\* Ord::cmp of two byte arrays, from byte i on: the lexicographic order.
RECURSIVE CmpFrom(_, _, _)
CmpFrom(a, b, i) ==
    IF i > Len(a) THEN "Equal"
    ELSE IF a[i] < b[i] THEN "Less"
    ELSE IF a[i] > b[i] THEN "Greater"
    ELSE CmpFrom(a, b, i + 1)

\* A comparison of the first bytes only.
CmpFirstByte(a, b) ==
    IF a[1] < b[1] THEN "Less" ELSE IF a[1] > b[1] THEN "Greater" ELSE "Equal"

\* (&buf).cmp(&x)
Cmp(a, b) == CmpFrom(a, b, 1)

\* PwdFile::write for each record of the stream: the file's bytes are the
\* records' sha1 bytes, one after the other.
RECURSIVE FileOf(_)
FileOf(recs) == IF recs = << >> THEN << >> ELSE Head(recs) \o FileOf(Tail(recs))

\* seek(SeekFrom::Start(i * 20)) and read_exact of 20 bytes.
RecordAt(data, i) == SubSeq(data, i * RecordLen + 1, i * RecordLen + RecordLen)

\* A probe at the far end of the range.
MidAtRight(l, sz) == l + sz

\* `left + size / 2`
Mid(l, sz) == l + sz \div 2

\* A search that keeps the probed record in the range when it is too small.
NextLeftAtMid(cmp, mid, l) == IF cmp = "Less" THEN mid ELSE l

\* `left = if cmp == Ordering::Less { mid + 1 } else { left }`
NextLeft(cmp, mid, l) == IF cmp = "Less" THEN mid + 1 ELSE l

\* A search that drops the probed record's left neighbour.
NextRightBelowMid(cmp, mid, r) == IF cmp = "Greater" THEN mid - 1 ELSE r

\* `right = if cmp == Ordering::Greater { mid } else { right }`
NextRight(cmp, mid, r) == IF cmp = "Greater" THEN mid ELSE r

\* exists: `size = data.seek(SeekFrom::End(0))? / 20`, left = 0, right = size.
ExistsStart ==
    /\ exPc = "start"
    /\ size' = Len(fileData) \div RecordLen
    /\ left' = 0
    /\ right' = Len(fileData) \div RecordLen
    /\ exPc' = "loop"
    /\ UNCHANGED << fileData, x, exResult, iterations, chVars, osVars, dlVars,
                    consVars, libVars >>

\* exists: the loop's test and one iteration of its body.
ExistsIter ==
    /\ exPc = "loop"
    /\ IF left < right
       THEN LET mid == Mid(left, size) IN
            IF mid * RecordLen + RecordLen > Len(fileData)
            THEN \* read_exact fails: the error is returned
                 /\ exResult' = "Err"
                 /\ exPc' = "done"
                 /\ UNCHANGED << size, left, right >>
            ELSE LET cmp == Cmp(RecordAt(fileData, mid), x) IN
                 /\ left' = NextLeft(cmp, mid, left)
                 /\ right' = NextRight(cmp, mid, right)
                 /\ IF cmp = "Equal"
                    THEN /\ exResult' = "Ok(true)"
                         /\ exPc' = "done"
                         /\ UNCHANGED size
                    ELSE /\ size' = right' - left'
                         /\ UNCHANGED << exResult, exPc >>
       ELSE /\ exResult' = "Ok(false)"
            /\ exPc' = "done"
            /\ UNCHANGED << size, left, right >>
    /\ iterations' = IF left < right THEN iterations + 1 ELSE iterations
    /\ UNCHANGED << fileData, x, chVars, osVars, dlVars, consVars, libVars >>

\* The records are in non-decreasing order.
Sorted(recs) ==
    \A i \in 1..(Len(recs) - 1) : Cmp(recs[i], recs[i + 1]) # "Greater"

\* exists is called with any query on a file that save wrote from a sorted
\* stream of records.
InitEx ==
    /\ \E n \in 0..MaxRecords :
         \E recs \in [1..n -> Records] :
             /\ Sorted(recs)
             /\ fileData = FileOf(recs)
    /\ x \in Records
    /\ size = 0
    /\ left = 0
    /\ right = 0
    /\ exPc = "start"
    /\ exResult = "none"
    /\ iterations = 0
    /\ chan = << >>
    /\ chanClosed = FALSE
    /\ delivered = << >>
    /\ NoOrderedStream
    /\ NoDownload
    /\ NoLib

NextEx == ExistsStart \/ ExistsIter

SpecEx == InitEx /\ [][NextEx]_vars

\* The first k bytes of a record: what is left of a record whose write was
\* cut short.
TruncatedRecords ==
    {SubSeq(r, 1, k) : r \in Records, k \in {1, RecordLen \div 2, RecordLen - 1}}

\* exists is called with any query on a truncated file: whole records in
\* order, followed by less than one record.
InitExTrunc ==
    /\ \E n \in 0..MaxRecords :
         \E recs \in [1..n -> Records] :
             \E tail \in TruncatedRecords :
                 /\ Sorted(recs)
                 /\ fileData = FileOf(recs) \o tail
    /\ x \in Records
    /\ size = 0
    /\ left = 0
    /\ right = 0
    /\ exPc = "start"
    /\ exResult = "none"
    /\ iterations = 0
    /\ chan = << >>
    /\ chanClosed = FALSE
    /\ delivered = << >>
    /\ NoOrderedStream
    /\ NoDownload
    /\ NoLib

SpecExTrunc == InitExTrunc /\ [][NextEx]_vars

\* What may follow the last whole record of a file: nothing, or the first
\* bytes of a record whose write was cut short (exists never reads them).
Tails ==
    {SubSeq([i \in 1..RecordLen |-> 0], 1, k) : k \in {0, RecordLen - 1}}

\* exists is called with any query on any file: records in any order,
\* followed by less than one record.
InitExAny ==
    /\ \E n \in 0..MaxAnyRecords :
         \E recs \in [1..n -> Records] :
             \E tail \in Tails :
                 fileData = FileOf(recs) \o tail
    /\ x \in Records
    /\ size = 0
    /\ left = 0
    /\ right = 0
    /\ exPc = "start"
    /\ exResult = "none"
    /\ iterations = 0
    /\ chan = << >>
    /\ chanClosed = FALSE
    /\ delivered = << >>
    /\ NoOrderedStream
    /\ NoDownload
    /\ NoLib

SpecExAny == InitExAny /\ [][NextEx]_vars

(* -------------------------- LocalStore: save -------------------------- *)

\* LocalStore::DEFAULT_BUF_SIZE
DEFAULT_BUF_SIZE == 8192

\* A record that no stream of the model holds: the content of an old file.
OldRecord == [i \in 1..RecordLen |-> IF i = 2 THEN 1 ELSE 0]

\* What a path may hold before save is called: nothing, an empty file or an
\* old file of one record.
OldFiles == {None, Some(<< >>), Some(OldRecord)}

\* A store that writes to the temp path whatever its behaviour is.
WritePathTmp == DownloadTmp

\* A store that writes to the final path whatever its behaviour is.
WritePathFinal == file_path

\* open_write: the `path` that is written, by the existence behaviour.
WritePath ==
    IF existence_behaviour = "RemoveOldThenCreateNew" THEN file_path
    ELSE IF download_path = None THEN DownloadTmp
    ELSE download_path[1]

\* A store that never renames.
MoveNowhere == None

\* open_write: `move_on_complete_to`, by the existence behaviour.
MoveOnCompleteTo ==
    IF existence_behaviour = "RemoveOldThenCreateNew" THEN None
    ELSE Some(file_path)

\* `self.buff_capacity.unwrap_or(Self::DEFAULT_BUF_SIZE)`
Capacity == IF buff_capacity = None THEN DEFAULT_BUF_SIZE ELSE buff_capacity[1]

\* remove_file(path)
RemoveFile(f, p) == [f EXCEPT ![p] = None]

\* An open that appends to the file that is there.
OpenedFileAppend(f, p) == IF f[p] = None THEN [f EXCEPT ![p] = Some(<< >>)] ELSE f

\* open_write when it succeeds: the path is removed if it exists and created
\* anew (create_new), empty.
OpenedFile(f, p) == [RemoveFile(f, p) EXCEPT ![p] = Some(<< >>)]

\* rename(from, to): `to` is replaced; renaming a path to itself does nothing.
Rename(f, from, to) ==
    IF from = to THEN f ELSE [f EXCEPT ![to] = f[from], ![from] = None]

\* How many of n bytes a write that is cut short may have written: the model
\* cuts at a record's end, one byte before it and one byte after it.
Cuts(n) == {k \in 0..n : k % RecordLen \in {0, 1, RecordLen - 1}}

\* BufWriter::flush_buf: the bytes held back are written to the file; a failed
\* write leaves the bytes that were not written in the buffer.
FlushBuf(data, bufd) ==
    {[data |-> data \o bufd, buf |-> << >>, ok |-> TRUE]} \cup
    {[data |-> data \o SubSeq(bufd, 1, k), buf |-> SubSeq(bufd, k + 1, Len(bufd)),
      ok |-> FALSE] : k \in {c \in Cuts(Len(bufd)) : c < Len(bufd)}}

\* File::write_all of bytes that go past the buffer.
WriteDirect(data, bufd, bytes) ==
    {[data |-> data \o bytes, buf |-> bufd, ok |-> TRUE]} \cup
    {[data |-> data \o SubSeq(bytes, 1, k), buf |-> bufd, ok |-> FALSE] :
         k \in {c \in Cuts(Len(bytes)) : c < Len(bytes)}}

\* PwdFile::write, `self.file.write_all(&pwd.sha1)` on a BufWriter of capacity
\* cap: bytes shorter than the spare capacity are held back; else the buffer
\* is flushed if the bytes exceed the spare capacity, and the bytes are
\* written through if they are no shorter than the capacity.
BufWriteAll(data, bufd, cap, bytes) ==
    IF Len(bytes) < cap - Len(bufd)
    THEN {[data |-> data, buf |-> bufd \o bytes, ok |-> TRUE]}
    ELSE LET flushed == IF Len(bytes) > cap - Len(bufd)
                        THEN FlushBuf(data, bufd)
                        ELSE {[data |-> data, buf |-> bufd, ok |-> TRUE]}
         IN  UNION {IF ~o.ok THEN {o}
                    ELSE IF Len(bytes) >= cap
                    THEN WriteDirect(o.data, o.buf, bytes)
                    ELSE {[data |-> o.data, buf |-> o.buf \o bytes, ok |-> TRUE]} :
                        o \in flushed}

\* The PwdFile is dropped: its BufWriter writes what it can of the bytes it
\* holds back and ignores a failure.
DropFile(data, bufd) == {data \o SubSeq(bufd, 1, k) : k \in Cuts(Len(bufd))}

\* save returns res; a failure happened at the step `at`.
SaveReturns(res, at) ==
    /\ savePc' = "done"
    /\ saveResult' = res
    /\ failedAt' = at
    /\ pwd_file' = None

\* save: `let mut pwd_file = self.open_write()?`
SaveOpen ==
    /\ savePc = "open"
    /\ LET path == WritePath IN
       \/ \* remove_file fails
          /\ fs[path] # None
          /\ UNCHANGED fs
          /\ SaveReturns("Err", "remove")
       \/ \* options.open fails
          /\ fs' = RemoveFile(fs, path)
          /\ SaveReturns("Err", "create")
       \/ /\ fs' = OpenedFile(fs, path)
          /\ pwd_file' = Some([file |-> << >>, path |-> path,
                               move_on_complete_to |-> MoveOnCompleteTo])
          /\ savePc' = "write"
          /\ UNCHANGED << saveResult, failedAt >>
    /\ UNCHANGED << existence_behaviour, download_path, buff_capacity, stream,
                    records, fsBefore, saves, chVars, osVars, dlVars, consVars,
                    exVars, pfVars, paVars, ccVars >>

\* save: `while let Some(pwned_pwd) = s.next().await { pwd_file.write(..)? }`,
\* one record.
SaveWrite ==
    /\ savePc = "write"
    /\ stream # << >>
    /\ stream' = Tail(stream)
    /\ LET pf == pwd_file[1] IN
       \E o \in BufWriteAll(fs[pf.path][1], pf.file, Capacity, Head(stream)) :
           IF o.ok
           THEN /\ fs' = [fs EXCEPT ![pf.path] = Some(o.data)]
                /\ pwd_file' = Some([pf EXCEPT !.file = o.buf])
                /\ UNCHANGED << savePc, saveResult, failedAt >>
           ELSE \E d \in DropFile(o.data, o.buf) :
                /\ fs' = [fs EXCEPT ![pf.path] = Some(d)]
                /\ SaveReturns("Err", "write")
    /\ UNCHANGED << existence_behaviour, download_path, buff_capacity, records,
                    fsBefore, saves, chVars, osVars, dlVars, consVars, exVars,
                    pfVars, paVars, ccVars >>

\* save: the stream has ended, `pwd_file.complete()?`: flush, drop the file,
\* rename it if there is a path to move it to.
SaveComplete ==
    /\ savePc = "write"
    /\ stream = << >>
    /\ LET pf == pwd_file[1] IN
       \E o \in FlushBuf(fs[pf.path][1], pf.file) :
           IF ~o.ok
           THEN \E d \in DropFile(o.data, o.buf) :
                /\ fs' = [fs EXCEPT ![pf.path] = Some(d)]
                /\ SaveReturns("Err", "flush")
           ELSE IF pf.move_on_complete_to = None
           THEN /\ fs' = [fs EXCEPT ![pf.path] = Some(o.data)]
                /\ SaveReturns("Ok", "none")
           ELSE \/ \* rename fails
                   /\ fs' = [fs EXCEPT ![pf.path] = Some(o.data)]
                   /\ SaveReturns("Err", "rename")
                \/ /\ fs' = Rename([fs EXCEPT ![pf.path] = Some(o.data)],
                                   pf.path, pf.move_on_complete_to[1])
                   /\ SaveReturns("Ok", "none")
    /\ UNCHANGED << existence_behaviour, download_path, buff_capacity, stream,
                    records, fsBefore, saves, chVars, osVars, dlVars, consVars,
                    exVars, pfVars, paVars, ccVars >>

\* save is called again on the same store with the same records, after a save
\* that succeeded.
SaveAgain ==
    /\ savePc = "done"
    /\ saveResult = "Ok"
    /\ Len(saves) + 1 < MaxSaves
    /\ saves' = Append(saves, fs[file_path])
    /\ stream' = records
    /\ fsBefore' = fs
    /\ savePc' = "open"
    /\ saveResult' = "none"
    /\ failedAt' = "none"
    /\ UNCHANGED << existence_behaviour, download_path, buff_capacity, fs,
                    pwd_file, records, chVars, osVars, dlVars, consVars, exVars,
                    pfVars, paVars, ccVars >>

\* save is called on a store of either behaviour with a stream of at most
\* MaxSaved records, whatever the temp path and the final path hold.
InitSave ==
    /\ existence_behaviour \in {"RemoveOldThenCreateNew", "DownloadThenReplace"}
    /\ download_path \in {None, Some(file_path)}
    /\ existence_behaviour = "RemoveOldThenCreateNew" => download_path = None
    /\ buff_capacity \in {None, Some(RecordLen), Some(RecordLen + RecordLen \div 2)}
    /\ fs \in [Paths -> OldFiles]
    /\ \E n \in 0..MaxSaved : records \in [1..n -> Records]
    /\ stream = records
    /\ fsBefore = fs
    /\ pwd_file = None
    /\ savePc = "open"
    /\ saveResult = "none"
    /\ failedAt = "none"
    /\ saves = << >>
    /\ NoConc
    /\ chan = << >>
    /\ chanClosed = FALSE
    /\ delivered = << >>
    /\ NoOrderedStream
    /\ NoDownload
    /\ NoExists
    /\ NoPrefixCalls
    /\ NoParse

NextSave == SaveOpen \/ SaveWrite \/ SaveComplete \/ SaveAgain

SpecSave == InitSave /\ [][NextSave]_vars

(* ------------------ LocalStore: calls at the same time ---------------- *)

\* A store that writes to its final path.
TempPathFinal(s) == saver[s].file_path

\* open_write of a DownloadThenReplace store: the `path` that is written,
\* the download_path or else `self.file_path.with_file_name("download_tmp")`.
TempPathOf(s) ==
    IF saver[s].download_path = None THEN DownloadTmp
    ELSE saver[s].download_path[1]

\* `self.buff_capacity.unwrap_or(Self::DEFAULT_BUF_SIZE)` of the store of s.
CapacityOf(s) ==
    IF saver[s].buff_capacity = None THEN DEFAULT_BUF_SIZE
    ELSE saver[s].buff_capacity[1]

\* The save s returns res and drops its PwdFile.
Returned(s, res) ==
    [saver EXCEPT ![s].pc = "done", ![s].result = res, ![s].pwd_file = None]

\* open_write of s: `if path.exists()`.
SaverPathExists(s) ==
    /\ saver[s].pc = "open"
    /\ saver' = [saver EXCEPT ![s].pc =
                     IF dir[TempPathOf(s)] # None THEN "remove" ELSE "create"]
    /\ UNCHANGED << dir, inodes, handle, seen, chVars, osVars, dlVars,
                    consVars, exVars, stVars, pfVars, paVars >>

\* open_write of s: `remove_file(&path)?`; it fails if the path names no
\* file any more, and whenever the system refuses.
SaverRemove(s) ==
    /\ saver[s].pc = "remove"
    /\ \/ /\ dir[TempPathOf(s)] # None
          /\ dir' = [dir EXCEPT ![TempPathOf(s)] = None]
          /\ saver' = [saver EXCEPT ![s].pc = "create"]
       \/ /\ UNCHANGED dir
          /\ saver' = Returned(s, "Err")
    /\ UNCHANGED << inodes, handle, seen, chVars, osVars, dlVars, consVars,
                    exVars, stVars, pfVars, paVars >>

\* open_write of s: `options.open(&path)?` with create_new; it fails if the
\* path names a file, and whenever the system refuses.
SaverCreate(s) ==
    /\ saver[s].pc = "create"
    /\ \/ /\ dir[TempPathOf(s)] = None
          /\ inodes' = Append(inodes, << >>)
          /\ dir' = [dir EXCEPT ![TempPathOf(s)] = Some(Len(inodes) + 1)]
          /\ saver' = [saver EXCEPT
                          ![s].pc = "write",
                          ![s].pwd_file =
                              Some([file |-> << >>, inode |-> Len(inodes) + 1,
                                    path |-> TempPathOf(s),
                                    move_on_complete_to |->
                                        Some(saver[s].file_path)])]
       \/ /\ UNCHANGED << dir, inodes >>
          /\ saver' = Returned(s, "Err")
    /\ UNCHANGED << handle, seen, chVars, osVars, dlVars, consVars, exVars,
                    stVars, pfVars, paVars >>

\* save of s: `pwd_file.write(pwned_pwd)?` for the next record of the
\* stream; the bytes go to the inode that the PwdFile opened.
SaverWrite(s) ==
    /\ saver[s].pc = "write"
    /\ saver[s].stream # << >>
    /\ LET pf == saver[s].pwd_file[1] IN
       \E o \in BufWriteAll(inodes[pf.inode], pf.file, CapacityOf(s),
                            Head(saver[s].stream)) :
           IF o.ok
           THEN /\ inodes' = [inodes EXCEPT ![pf.inode] = o.data]
                /\ saver' = [saver EXCEPT
                                ![s].stream = Tail(@),
                                ![s].pwd_file = Some([pf EXCEPT !.file = o.buf])]
           ELSE \E d \in DropFile(o.data, o.buf) :
                /\ inodes' = [inodes EXCEPT ![pf.inode] = d]
                /\ saver' = [Returned(s, "Err") EXCEPT ![s].stream = Tail(@)]
    /\ UNCHANGED << dir, handle, seen, chVars, osVars, dlVars, consVars,
                    exVars, stVars, pfVars, paVars >>

\* complete of s, once the stream has ended: `self.file.flush()?` and
\* `drop(self.file)`.
SaverFlush(s) ==
    /\ saver[s].pc = "write"
    /\ saver[s].stream = << >>
    /\ LET pf == saver[s].pwd_file[1] IN
       \E o \in FlushBuf(inodes[pf.inode], pf.file) :
           IF o.ok
           THEN /\ inodes' = [inodes EXCEPT ![pf.inode] = o.data]
                /\ saver' = [saver EXCEPT
                                ![s].pc = "rename",
                                ![s].pwd_file = Some([pf EXCEPT !.file = o.buf])]
           ELSE \E d \in DropFile(o.data, o.buf) :
                /\ inodes' = [inodes EXCEPT ![pf.inode] = d]
                /\ saver' = Returned(s, "Err")
    /\ UNCHANGED << dir, handle, seen, chVars, osVars, dlVars, consVars,
                    exVars, stVars, pfVars, paVars >>

\* rename(from, to) in a directory: `to` names the inode that `from` named
\* and `from` names nothing; renaming a path to itself does nothing.
RenameEntry(d, from, to) ==
    IF from = to THEN d ELSE [d EXCEPT ![to] = d[from], ![from] = None]

\* complete of s: `rename(&self.path, &move_to)?`; it fails if the path
\* names no file any more, and whenever the system refuses.
SaverRename(s) ==
    /\ saver[s].pc = "rename"
    /\ LET pf == saver[s].pwd_file[1] IN
       \/ /\ dir[pf.path] # None
          /\ dir' = RenameEntry(dir, pf.path, pf.move_on_complete_to[1])
          /\ saver' = Returned(s, "Ok")
       \/ /\ UNCHANGED dir
          /\ saver' = Returned(s, "Err")
    /\ UNCHANGED << inodes, handle, seen, chVars, osVars, dlVars, consVars,
                    exVars, stVars, pfVars, paVars >>

\* Has the save s renamed its file to its final path?
Published(s) == saver[s].pc = "done" /\ saver[s].result = "Ok"

\* What exists sees of its file at a seek or a read: the bytes of the inode
\* that its File was opened on.
Sight == [data |-> inodes[handle], published |-> Published(1)]

\* LocalStore::exists: `self.open_read()?`; the File is the inode that
\* file_path names now.
ReaderOpen ==
    /\ exPc = "open"
    /\ IF dir[file_path] = None
       THEN /\ exResult' = "Err"
            /\ exPc' = "done"
            /\ UNCHANGED handle
       ELSE /\ handle' = dir[file_path][1]
            /\ exPc' = "start"
            /\ UNCHANGED exResult
    /\ UNCHANGED << fileData, x, size, left, right, iterations, dir, inodes,
                    saver, seen, chVars, osVars, dlVars, consVars, stVars,
                    pfVars, paVars >>

\* exists on the opened File: `size = data.seek(SeekFrom::End(0))? / 20`.
ReaderStart ==
    /\ exPc = "start"
    /\ handle # 0
    /\ size' = Len(inodes[handle]) \div RecordLen
    /\ left' = 0
    /\ right' = Len(inodes[handle]) \div RecordLen
    /\ exPc' = "loop"
    /\ seen' = Append(seen, Sight)
    /\ UNCHANGED << fileData, x, exResult, iterations, dir, inodes, saver,
                    handle, chVars, osVars, dlVars, consVars, stVars, pfVars,
                    paVars >>

\* exists on the opened File: the loop's test and one iteration of its body.
ReaderIter ==
    /\ exPc = "loop"
    /\ handle # 0
    /\ IF left < right
       THEN LET mid == Mid(left, size) IN
            /\ seen' = Append(seen, Sight)
            /\ IF mid * RecordLen + RecordLen > Len(inodes[handle])
               THEN /\ exResult' = "Err"
                    /\ exPc' = "done"
                    /\ UNCHANGED << size, left, right >>
               ELSE LET cmp == Cmp(RecordAt(inodes[handle], mid), x) IN
                    /\ left' = NextLeft(cmp, mid, left)
                    /\ right' = NextRight(cmp, mid, right)
                    /\ IF cmp = "Equal"
                       THEN /\ exResult' = "Ok(true)"
                            /\ exPc' = "done"
                            /\ UNCHANGED size
                       ELSE /\ size' = right' - left'
                            /\ UNCHANGED << exResult, exPc >>
       ELSE /\ exResult' = "Ok(false)"
            /\ exPc' = "done"
            /\ UNCHANGED << size, left, right, seen >>
    /\ iterations' = IF left < right THEN iterations + 1 ELSE iterations
    /\ UNCHANGED << fileData, x, dir, inodes, saver, handle, chVars, osVars,
                    dlVars, consVars, stVars, pfVars, paVars >>

\* The records of the streams saved while other calls run: one below and
\* one above OldRecord.
SavedRecords == {[i \in 1..RecordLen |-> IF i = 1 THEN a ELSE 0] : a \in {0, 1}}

\* What the final path may hold before the calls: nothing, an empty file or
\* an old file of two records.
OldFinals == {None, Some(<< >>), Some(OldRecord \o OldRecord)}

\* The directory in which `final` names inode 1 if there is an old file and
\* `tmp` names inode 2 if a file was left behind there.
DirOf(final, old, tmp, leftover) ==
    [p \in DirPaths |->
        IF p = final /\ old # None THEN Some(1)
        ELSE IF p = tmp /\ leftover # None THEN Some(2)
        ELSE None]

\* The bytes of a file that may be missing.
BytesOf(f) == IF f = None THEN << >> ELSE f[1]

\* A save that is about to run on the store of the final path `final`.
NewSaver(final, dp, cap, recs) ==
    [file_path |-> final, download_path |-> dp, buff_capacity |-> cap,
     records |-> recs, stream |-> recs, pwd_file |-> None, pc |-> "open",
     result |-> "none"]

\* No call of the other components runs.
OnlyStoreCalls ==
    /\ existence_behaviour = "DownloadThenReplace"
    /\ download_path = None
    /\ buff_capacity = None
    /\ fs = [p \in Paths |-> None]
    /\ pwd_file = None
    /\ stream = << >>
    /\ savePc = "idle"
    /\ saveResult = "none"
    /\ records = << >>
    /\ fsBefore = [p \in Paths |-> None]
    /\ failedAt = "none"
    /\ saves = << >>
    /\ chan = << >>
    /\ chanClosed = FALSE
    /\ delivered = << >>
    /\ NoOrderedStream
    /\ NoDownload
    /\ NoPrefixCalls
    /\ NoParse

\* exists is called on a store while save runs on it: a DownloadThenReplace
\* store whose temp path is not its final path, whatever the two paths hold.
InitReadSave ==
    /\ \E dp \in {None, Some(other_file_path)},
          cap \in {None, Some(RecordLen)},
          old \in OldFinals, leftover \in OldFiles,
          n \in 0..MaxReadSaved :
          \E recs \in [1..n -> SavedRecords] :
              /\ saver = [s \in Savers |->
                             IF s = 1 THEN NewSaver(file_path, dp, cap, recs)
                             ELSE IdleSaver]
              /\ dir = DirOf(file_path, old,
                             IF dp = None THEN DownloadTmp ELSE dp[1], leftover)
              /\ inodes = << BytesOf(old), BytesOf(leftover) >>
    /\ handle = 0
    /\ seen = << >>
    /\ fileData = << >>
    /\ x \in SavedRecords \cup {OldRecord}
    /\ size = 0
    /\ left = 0
    /\ right = 0
    /\ exPc = "open"
    /\ exResult = "none"
    /\ iterations = 0
    /\ OnlyStoreCalls

NextReadSave ==
    \/ SaverPathExists(1)
    \/ SaverRemove(1)
    \/ SaverCreate(1)
    \/ SaverWrite(1)
    \/ SaverFlush(1)
    \/ SaverRename(1)
    \/ ReaderOpen
    \/ ReaderStart
    \/ ReaderIter

SpecReadSave == InitReadSave /\ [][NextReadSave]_vars

\* save is called at the same time on two DownloadThenReplace stores of one
\* directory that have different final paths and no download_path.
InitTwoSaves ==
    /\ \E cap \in {None, Some(RecordLen)}, leftover \in {None, Some(<< >>)},
          n1 \in 0..MaxTwoSaved, n2 \in 0..MaxTwoSaved :
          \E r1 \in [1..n1 -> SavedRecords], r2 \in [1..n2 -> SavedRecords] :
              /\ saver = [s \in Savers |->
                             IF s = 1 THEN NewSaver(file_path, None, cap, r1)
                             ELSE NewSaver(other_file_path, None, cap, r2)]
              /\ dir = DirOf(file_path, None, DownloadTmp, leftover)
              /\ inodes = << << >>, BytesOf(leftover) >>
    /\ handle = 0
    /\ seen = << >>
    /\ NoExists
    /\ OnlyStoreCalls

NextTwoSaves ==
    \E s \in Savers :
        \/ SaverPathExists(s)
        \/ SaverRemove(s)
        \/ SaverCreate(s)
        \/ SaverWrite(s)
        \/ SaverFlush(s)
        \/ SaverRename(s)

SpecTwoSaves == InitTwoSaves /\ [][NextTwoSaves]_vars

(* --------------------------- Prefix: calls ---------------------------- *)

\* The greatest u32 that TLC's integers hold, 2^31 - 1: the u32 values above
\* it are not among the model's values.
TopU32 == 2147483647

\* The u32 values given to create and try_from: those near 0, near the
\* maximum prefix (on both sides) and the greatest ones.
U32Samples ==
    (0..MaxOff) \cup ((MAX_PREFIX - MaxOff)..(MAX_PREFIX + MaxOff))
        \cup {TopU32 - k : k \in 0..MaxOff}

\* Prefix::create(createArg)
CreateCall ==
    /\ "create" \notin pfDone
    /\ createResult' = PrefixCreate(createArg)
    /\ pfDone' = pfDone \cup {"create"}
    /\ UNCHANGED << createArg, tryFromResult, iterFrom, yielded, fwVars, chVars, osVars,
                    dlVars, consVars, exVars, stVars, paVars, ccVars >>

\* Prefix::try_from(createArg)
TryFromCall ==
    /\ "try_from" \notin pfDone
    /\ tryFromResult' = TryFromU32(createArg)
    /\ pfDone' = pfDone \cup {"try_from"}
    /\ UNCHANGED << createArg, createResult, iterFrom, yielded, fwVars, chVars, osVars,
                    dlVars, consVars, exVars, stVars, paVars, ccVars >>

\* PrefixIterator::next: `current = self.next`, self.next moves on, current
\* is returned.
IterNextCall ==
    /\ Len(yielded) < PrefixWindow + MaxPastEnd
    /\ yielded' = Append(yielded, iterNext)
    /\ iterNext' = IterAdvance(iterNext)
    /\ UNCHANGED << createArg, createResult, tryFromResult, pfDone, iterFrom, fwVars,
                    chVars, osVars, consVars, exVars, stVars, paVars, max_spawns,
                    spawned, downloadDone, running_tasks, prefixes_processed,
                    pc, held, cause, sawClosed, dequeued, deqAfterDrop, lockVars,
                    ccVars >>

\* A u32 to make a Prefix of, and `prefix.into_iter()` of some prefix.
InitPrefix ==
    /\ createArg \in U32Samples
    /\ createResult = None
    /\ tryFromResult = << "Ok", 0 >>
    /\ pfDone = {}
    /\ iterFrom \in Prefixes
    /\ iterNext = Some(iterFrom)
    /\ yielded = << >>
    /\ NoForward
    /\ chan = << >>
    /\ chanClosed = FALSE
    /\ delivered = << >>
    /\ NoOrderedStream
    /\ NoWorkers
    /\ NoExists
    /\ NoSave
    /\ NoParse

NextPrefix == CreateCall \/ TryFromCall \/ IterNextCall

SpecPrefix == InitPrefix /\ [][NextPrefix]_vars

(* ------------------- Prefix: forward, + and count --------------------- *)

\* A u32 as two 16-bit halves << hi, lo >>.
Halves(n) == << n \div 65536, n % 65536 >>

\* `self.0 + v` on u32, both as halves: whether the sum overflows u32, and
\* the sum modulo 2^32.
AddU32(a, b) ==
    LET lo == a[2] + b[2]
        hi == a[1] + b[1] + (lo \div 65536)
    IN  [overflow |-> hi >= 65536, value |-> << hi % 65536, lo % 65536 >>]

\* Prefix::create of a u32 given as halves: `v > MAX_PREFIX` is None.
CreateU32(h) ==
    IF h[1] > Halves(MAX_PREFIX)[1]
          \/ (h[1] = Halves(MAX_PREFIX)[1] /\ h[2] > Halves(MAX_PREFIX)[2])
    THEN None
    ELSE Some(h[1] * 65536 + h[2])

\* Prefix::forward(v) and Prefix + v: `create(self.0 + v)`. An overflow of
\* the addition panics in a build with overflow checks and wraps in one
\* without: the outcomes of the call.
ForwardOutcomes(self, v) ==
    LET sum == AddU32(Halves(self), v) IN
    IF sum.overflow THEN {"panic", CreateU32(sum.value)}
    ELSE {CreateU32(sum.value)}

\* Prefix::count
PrefixCount == MAX_PREFIX

\* The u32 arguments of forward: those near 0, on both sides of the
\* maximum prefix, in the middle of the range and the greatest ones.
ForwardArgs ==
    {<< 0, k >> : k \in 0..MaxOff}
        \cup {<< 15, 65535 - k >> : k \in 0..MaxOff}
        \cup {<< 16, k >> : k \in 0..MaxOff}
        \cup {<< 32768, k >> : k \in 0..MaxOff}
        \cup {<< 65535, 65535 - k >> : k \in 0..MaxOff}

\* The prefixes forward is called on: the least ones and the greatest ones.
ForwardSelves == (0..MaxOff) \cup Prefixes

\* self.forward(v), or self + v
ForwardCall ==
    /\ "forward" \notin pfDone
    /\ forwardResult' \in ForwardOutcomes(forwardSelf, forwardArg)
    /\ pfDone' = pfDone \cup {"forward"}
    /\ UNCHANGED << createArg, createResult, tryFromResult, iterFrom, yielded,
                    forwardSelf, forwardArg, countResult, chVars, osVars,
                    dlVars, consVars, exVars, stVars, paVars, ccVars >>

\* Prefix::count()
CountCall ==
    /\ "count" \notin pfDone
    /\ countResult' = PrefixCount
    /\ pfDone' = pfDone \cup {"count"}
    /\ UNCHANGED << createArg, createResult, tryFromResult, iterFrom, yielded,
                    forwardSelf, forwardArg, forwardResult, chVars, osVars,
                    dlVars, consVars, exVars, stVars, paVars, ccVars >>

\* A prefix and a u32 to forward it by.
InitForward ==
    /\ forwardSelf \in ForwardSelves
    /\ forwardArg \in ForwardArgs
    /\ forwardResult = "none"
    /\ countResult = 0
    /\ createArg = 0
    /\ createResult = None
    /\ tryFromResult = << "Ok", 0 >>
    /\ pfDone = {}
    /\ iterFrom = 0
    /\ yielded = << >>
    /\ chan = << >>
    /\ chanClosed = FALSE
    /\ delivered = << >>
    /\ NoOrderedStream
    /\ NoDownload
    /\ NoExists
    /\ NoSave
    /\ NoParse

NextForward == ForwardCall \/ CountCall

SpecForward == InitForward /\ [][NextForward]_vars

(* --------------------------- Parser: parse ---------------------------- *)

\* b':'
Colon == 58

\* What val gives for a byte that is no hex digit (an InvalidHexCharacter).
NotHex == 0 - 1

\* val: b'A'..=b'F', b'a'..=b'f' and b'0'..=b'9' have a value.
HexVal(char) ==
    IF char >= 65 /\ char <= 70 THEN char - 65 + 10
    ELSE IF char >= 97 /\ char <= 102 THEN char - 97 + 10
    ELSE IF char >= 48 /\ char <= 57 THEN char - 48
    ELSE NotHex

\* A prefix written without the shift by one nibble.
WritePrefixUnshifted(p) ==
    << (p \div 65536) % 256, (p \div 256) % 256, p % 256 >>

\* Prefix::write_prefix: the three low bytes of `self.0 << 4`, high byte
\* first.
WritePrefix(p) ==
    << ((p * 16) \div 65536) % 256, ((p * 16) \div 256) % 256, (p * 16) % 256 >>

\* a | b on bytes
RECURSIVE BitOr(_, _)
BitOr(a, b) ==
    IF a = 0 THEN b
    ELSE IF b = 0 THEN a
    ELSE (IF a % 2 = 1 \/ b % 2 = 1 THEN 1 ELSE 0) + 2 * BitOr(a \div 2, b \div 2)

\* A str can be cut before its byte of index idx (counted from 0): the byte
\* is no UTF-8 continuation byte.
IsCharBoundary(value, idx) ==
    idx = Len(value) \/ ~(value[idx + 1] >= 128 /\ value[idx + 1] <= 191)

\* hex::decode_to_slice of an even number of bytes: two digits make a byte;
\* the first byte that is no hex digit is the error, with its index.
DecodeToSlice(data) ==
    LET bad == {i \in 1..Len(data) : HexVal(data[i]) = NotHex} IN
    IF bad # {}
    THEN [ok |-> FALSE, bytes |-> << >>,
          index |-> (CHOOSE i \in bad : \A j \in bad : i <= j) - 1]
    ELSE [ok |-> TRUE,
          bytes |-> [i \in 1..(Len(data) \div 2) |->
                        HexVal(data[2 * i - 1]) * 16 + HexVal(data[2 * i])],
          index |-> 0]

\* u32::from_str, the digits from the i-th byte on. The u32 is kept as two
\* 16-bit halves << hi, lo >>; a digit that takes it past u32::MAX is a
\* PosOverflow, a byte that is no digit an InvalidDigit.
RECURSIVE ParseDigits(_, _, _, _)
ParseDigits(src, i, hi, lo) ==
    IF i > Len(src) THEN [error |-> "none", value |-> << hi, lo >>]
    ELSE IF ~(src[i] >= 48 /\ src[i] <= 57)
    THEN [error |-> "InvalidDigit", value |-> << 0, 0 >>]
    ELSE LET lo10 == lo * 10 + (src[i] - 48)
             hi10 == hi * 10 + lo10 \div 65536
         IN  IF hi10 >= 65536
             THEN [error |-> "PosOverflow", value |-> << 0, 0 >>]
             ELSE ParseDigits(src, i + 1, hi10, lo10 % 65536)

\* `value[36..].parse()` to a u32: an empty str is Empty, one leading '+' is
\* skipped, a lone '+' is an InvalidDigit.
ParseU32(src) ==
    IF src = << >> THEN [error |-> "Empty", value |-> << 0, 0 >>]
    ELSE IF src[1] = 43
    THEN IF Len(src) = 1
         THEN [error |-> "InvalidDigit", value |-> << 0, 0 >>]
         ELSE ParseDigits(src, 2, 0, 0)
    ELSE ParseDigits(src, 1, 0, 0)

\* Err(e) of parse; index is that of an InvalidHexCharacter.
ParseErr(e, idx) == [kind |-> "Err", error |-> e, index |-> idx,
                     sha1 |-> << >>, count |-> << 0, 0 >>]

\* A panic of parse: a str cut inside a character.
ParsePanic == [kind |-> "panic", error |-> "none", index |-> 0,
               sha1 |-> << >>, count |-> << 0, 0 >>]

\* A length check that lets a line without a count through.
LengthOkWithoutCount(value) == Len(value) >= 36

\* `value.len() < 37` is an InvalidStringLength.
LengthOk(value) == Len(value) >= 37

\* Parser::parse
ParseLine(p, value) ==
    IF ~LengthOk(value) THEN ParseErr("InvalidStringLength", 0)
    ELSE IF value[36] # Colon THEN ParseErr("InvalidString", 0)
    ELSE LET res == WritePrefix(p)
             first == HexVal(value[1])
         IN
         IF first = NotHex THEN ParseErr("InvalidHexCharacter", 0)
         ELSE IF ~IsCharBoundary(value, 1) \/ ~IsCharBoundary(value, 35)
         THEN ParsePanic
         ELSE LET dec == DecodeToSlice(SubSeq(value, 2, 35)) IN
              IF ~dec.ok THEN ParseErr("InvalidHexCharacter", dec.index)
              ELSE IF ~IsCharBoundary(value, 36) THEN ParsePanic
              ELSE LET cnt == ParseU32(SubSeq(value, 37, Len(value))) IN
                   IF cnt.error # "none" THEN ParseErr(cnt.error, 0)
                   ELSE [kind |-> "Ok", error |-> "none", index |-> 0,
                         sha1 |-> << res[1], res[2], BitOr(res[3], first) >>
                                      \o dec.bytes,
                         count |-> cnt.value]

\* parser.parse(line)
ParseCall ==
    /\ parseResult.kind = "none"
    /\ parseResult' = ParseLine(parserPrefix, line)
    /\ UNCHANGED << parserPrefix, line, flVars, chVars, osVars, dlVars, consVars,
                    exVars, stVars, pfVars, ccVars >>

\* The bytes of decimal digits.
Digits(ds) == [i \in 1..Len(ds) |-> 48 + ds[i]]

\* The counts of the model's lines that are decimal u32 numbers below 2^31:
\* 0, 13, 007, 999999 and 2147483647.
SmallDecimals ==
    {Digits(<< 0 >>), Digits(<< 1, 3 >>), Digits(<< 0, 0, 7 >>),
     Digits(<< 9, 9, 9, 9, 9, 9 >>), Digits(<< 2, 1, 4, 7, 4, 8, 3, 6, 4, 7 >>)}

\* u32::MAX in decimal digits: 4294967295.
U32MaxDigits == Digits(<< 4, 2, 9, 4, 9, 6, 7, 2, 9, 5 >>)

\* The tails of the model's lines that are no decimal u32: nothing,
\* 4294967296, 99999999999, "+7", "x", "1x", "-1" and " 1".
OtherTails ==
    {<< >>, Digits(<< 4, 2, 9, 4, 9, 6, 7, 2, 9, 6 >>),
     Digits(<< 9, 9, 9, 9, 9, 9, 9, 9, 9, 9, 9 >>), << 43, 55 >>, << 120 >>,
     << 49, 120 >>, << 45, 49 >>, << 32, 49 >>}

\* The first byte of the model's lines: 0, 7, F, f, G, ':' and the first
\* byte of a two-byte character.
FirstBytes == {48, 55, 70, 102, 71, Colon, 195}

\* The next two bytes: 00, A5, af, 0g, a two-byte character, and the second
\* byte of one followed by 0.
SecondBytes ==
    {<< 48, 48 >>, << 65, 53 >>, << 97, 102 >>, << 48, 103 >>, << 195, 169 >>,
     << 169, 48 >>}

\* The bytes of index 33 and 34: 00, 87, F:, and 0 before the first byte of a
\* two-byte character.
LastBytes == {<< 48, 48 >>, << 56, 55 >>, << 70, Colon >>, << 48, 195 >>}

\* The byte of index 35: ':', '|', and the two bytes of a two-byte character.
Separators == {Colon, 124, 195, 169}

\* The str is valid UTF-8: the bytes of the model's two-byte character come
\* together.
ValidUtf8(value) ==
    \A i \in 1..Len(value) :
        /\ value[i] = 195 => (i < Len(value) /\ value[i + 1] = 169)
        /\ value[i] = 169 => (i > 1 /\ value[i - 1] = 195)

\* The lines given to parse, and the first 0, 35 and 36 bytes of them.
Lines ==
    LET full == {<< c >> \o b \o [i \in 1..30 |-> 48] \o e \o << sep >> \o t :
                     c \in FirstBytes, b \in SecondBytes, e \in LastBytes,
                     sep \in Separators,
                     t \in SmallDecimals \cup {U32MaxDigits} \cup OtherTails
                           \cup {<< 169, 49 >>}}
    IN  {l \in full \cup {SubSeq(f, 1, k) : f \in full, k \in {0, 35}} :
             ValidUtf8(l)}

\* The prefixes of the model's parsers: 0, 0x21BD4 and the greatest ones.
ParserPrefixes == {0, 138196} \cup Prefixes

\* A parser of some prefix is given some line.
InitParse ==
    /\ parserPrefix \in ParserPrefixes
    /\ line \in Lines
    /\ parseResult = NotParsed
    /\ NoFlatten
    /\ chan = << >>
    /\ chanClosed = FALSE
    /\ delivered = << >>
    /\ NoOrderedStream
    /\ NoDownload
    /\ NoExists
    /\ NoSave
    /\ NoPrefixCalls

NextParse == ParseCall

SpecParse == InitParse /\ [][NextParse]_vars

(* ------------------- chunks flattened into records ------------------- *)

\* The lines of a response body in the model: 35 hex digits that start
\* with 0 and end with F, or start with F and end with 0, then ":0".
BodyLines ==
    {<< c[1] >> \o [i \in 1..33 |-> 48] \o << c[2] >> \o << Colon, 48 >> :
         c \in {<< 48, 70 >>, << 70, 48 >>}}

\* `parser.parse(l)` for each prefix and each line of the model: the sha1 of
\* the PwnedPwd.
ParsedSha1 ==
    [p \in Prefixes |-> [l \in BodyLines |-> ParseLine(p, l).sha1]]

\* download_by_prefix: the chunk of prefix p whose passwords are the lines
\* of the body, each parsed by the parser of p.
ChunkOf(p, body) ==
    [prefix |-> p,
     passwords |-> [i \in 1..Len(body) |-> ParsedSha1[p][body[i]]]]

\* The bodies of at most n lines.
Bodies(n) == UNION {[1..k -> BodyLines] : k \in 0..n}

\* The streams of at most n chunks whose prefixes increase strictly: what
\* OrderedStream emits.
RECURSIVE OrderedChunks(_, _)
OrderedChunks(n, from) ==
    IF n = 0 THEN {<< >>}
    ELSE {<< >>} \cup
         UNION {{<< ChunkOf(p, b) >> \o rest :
                    b \in Bodies(MaxChunkRecords),
                    rest \in OrderedChunks(n - 1, p + 1)} :
                p \in {q \in Prefixes : q >= from}}

\* Chunk::into_iter under a flatten: the next record of the first chunk, or
\* the next chunk when the first has no record left.
FlattenNext ==
    /\ chunks # << >>
    /\ IF Head(chunks).passwords = << >>
       THEN /\ chunks' = Tail(chunks)
            /\ flat' = flat
       ELSE /\ flat' = Append(flat, [sha1 |-> Head(Head(chunks).passwords),
                                     prefix |-> Head(chunks).prefix])
            /\ chunks' = << [Head(chunks) EXCEPT !.passwords = Tail(@)] >>
                             \o Tail(chunks)
    /\ UNCHANGED << parserPrefix, line, parseResult, chVars, osVars, dlVars,
                    consVars, exVars, stVars, pfVars, ccVars >>

\* A stream of chunks in ascending prefix order, about to be flattened.
InitFlatten ==
    /\ chunks \in OrderedChunks(MaxChunks, 0)
    /\ flat = << >>
    /\ parserPrefix = 0
    /\ line = << >>
    /\ parseResult = NotParsed
    /\ chan = << >>
    /\ chanClosed = FALSE
    /\ delivered = << >>
    /\ NoOrderedStream
    /\ NoDownload
    /\ NoExists
    /\ NoSave
    /\ NoPrefixCalls

NextFlatten == FlattenNext

SpecFlatten == InitFlatten /\ [][NextFlatten]_vars

(* ----------------------- OrderedStream: properties -------------------- *)

\* The prefixes of the chunks the upstream delivered.
DeliveredPrefixes == {delivered[i].prefix : i \in 1..Len(delivered)}

\* The upstream delivered only chunks, and they are a permutation of the
\* contiguous set {first, ..., first + k}.
DeliveredContiguousPerm ==
    /\ \A i \in 1..Len(delivered) : delivered[i].kind = "chunk"
    /\ DeliveredPrefixes =
         first_expected_prefix..(first_expected_prefix + Len(delivered) - 1)

\* The upstream delivered only chunks, at least one, and the set of their
\* prefixes is not {first, ..., first + k} for any k.
DeliveredDiscontinuous ==
    /\ delivered # << >>
    /\ \A i \in 1..Len(delivered) : delivered[i].kind = "chunk"
    /\ DeliveredPrefixes #
         first_expected_prefix..
             (first_expected_prefix + Cardinality(DeliveredPrefixes) - 1)

\* C1: once OrderedStream has ended on an upstream that delivered a
\* permutation of the contiguous set {first, ..., first + k}, it has emitted
\* exactly those chunks, each once, in ascending prefix order and without any
\* error: as many items as the upstream delivered.
C1_PermutationEmittedAscending ==
    (osState = "ended" /\ DeliveredContiguousPerm) =>
        /\ Len(out) = Len(delivered)
        /\ \A i \in 1..Len(out) :
             /\ out[i].kind = "chunk"
             /\ out[i].prefix = first_expected_prefix + i - 1
             /\ \E j \in 1..Len(delivered) :
                  /\ delivered[j].prefix = out[i].prefix
                  /\ delivered[j].seq = out[i].seq

\* C1 witness: the stream ended after a permutation of at least three
\* contiguous prefixes that arrived out of order.
C1_Witness ==
    /\ osState = "ended"
    /\ DeliveredContiguousPerm
    /\ Len(delivered) >= 3
    /\ delivered[1].prefix # first_expected_prefix
    /\ delivered[Len(delivered)].prefix = first_expected_prefix + 1

\* Option<Prefix> order with None after every prefix: a moves forward to b.
OptForward(a, b) == b = None \/ (a # None /\ a[1] <= b[1])

\* The emitted chunks so far: each had the prefix that was expected when it
\* was emitted, and their prefixes increase strictly.
EmittedStrictlyIncreasing ==
    \A i \in 1..Len(out) :
        out[i].kind = "chunk" =>
            /\ out[i].exp = Some(out[i].prefix)
            /\ \A j \in 1..(i - 1) :
                 out[j].kind = "chunk" => out[j].prefix < out[i].prefix

\* C2: for any upstream (any order, gaps, repeated prefixes, errors) the
\* emitted prefixes increase strictly, every emitted chunk has the prefix
\* expected at its emission, and expected_prefix only moves forward.
C2_EmissionOrdered ==
    /\ []EmittedStrictlyIncreasing
    /\ [][OptForward(expected_prefix, expected_prefix')]_vars

\* C2 witness: two chunks emitted although the upstream also delivered an
\* error, a repeated prefix and a prefix below the first expected one.
C2_Witness ==
    /\ Cardinality({i \in 1..Len(out) : out[i].kind = "chunk"}) >= 2
    /\ \E i \in 1..Len(out) : out[i].kind = "DownloadError"
    /\ \E i, j \in 1..Len(delivered) :
         /\ i < j
         /\ delivered[i].kind = "chunk"
         /\ delivered[j].kind = "chunk"
         /\ delivered[i].prefix = delivered[j].prefix

\* C3 (as claimed): once OrderedStream has ended on an upstream that
\* delivered a set of chunk prefixes that is not contiguous from the first
\* expected prefix, the consumer has received a Discontinuous error.
C3_DiscontinuousReported ==
    (osState = "ended" /\ DeliveredDiscontinuous) =>
        \E i \in 1..Len(out) : out[i].kind = "Discontinuous"

\* The chunks the upstream delivered so far have pairwise distinct prefixes,
\* none below the first expected prefix.
DeliveredDistinctFromFirst ==
    \A i \in 1..Len(delivered) :
        delivered[i].kind = "chunk" =>
            /\ delivered[i].prefix >= first_expected_prefix
            /\ \A j \in 1..Len(delivered) :
                 (delivered[j].kind = "chunk"
                    /\ delivered[j].prefix = delivered[i].prefix) => j = i

\* C23 (as claimed): whenever expected_prefix is set, every key of buf is
\* strictly greater than it.
C23_BufKeysAboveExpected ==
    expected_prefix # None => \A k \in DOMAIN buf : k > expected_prefix[1]

\* C23 (amended): every key of buf is the prefix of the chunk it holds, a
\* chunk the upstream delivered; while the upstream has delivered pairwise
\* distinct prefixes not below the first expected one, no key is below
\* expected_prefix (a key may equal it); and after a demand that returned
\* pending no key equals expected_prefix.
C23_BufKeysNotBelowExpected ==
    /\ \A k \in DOMAIN buf :
          /\ buf[k].prefix = k
          /\ \E i \in 1..Len(delivered) : delivered[i] = buf[k]
    /\ (expected_prefix # None /\ DeliveredDistinctFromFirst) =>
          \A k \in DOMAIN buf : k >= expected_prefix[1]
    /\ (expected_prefix # None /\ osState = "pending") =>
          expected_prefix[1] \notin DOMAIN buf

\* C23 witness: after an emission the buffer holds the chunk that is now
\* expected, and one more, on an upstream of distinct prefixes from the
\* first expected one.
C23_Witness ==
    /\ DeliveredDistinctFromFirst
    /\ out # << >>
    /\ expected_prefix # None
    /\ expected_prefix[1] \in DOMAIN buf
    /\ Cardinality(DOMAIN buf) = 2

\* The items a step of OrderedStream took from the upstream.
Taken == SubSeq(chan, 1, Len(chan) - Len(chan'))

\* The step is a poll of OrderedStream that took from the upstream a chunk
\* whose prefix is below expected_prefix.
TookChunkBelowExpected ==
    /\ delivered' = delivered
    /\ Len(chan') < Len(chan)
    /\ expected_prefix # None
    /\ \E i \in 1..Len(Taken) :
          Taken[i].kind = "chunk" /\ Taken[i].prefix < expected_prefix[1]

\* C24 (as claimed): a demand in which the upstream delivers a chunk whose
\* prefix is below expected_prefix fails with Discontinuous.
C24_SmallerPrefixIsDiscontinuous ==
    [][TookChunkBelowExpected =>
          /\ Len(out') = Len(out) + 1
          /\ out'[Len(out')].kind = "Discontinuous"]_vars

\* The step yields one more item to the consumer of OrderedStream.
Yields == Len(out') = Len(out) + 1

\* The item a yielding step yields.
Yielded == out'[Len(out')]

UpstreamEnded == chanClosed /\ chan = << >>

\* Step 1 of poll_next applies: the expected chunk is in buf.
ExpectedBuffered == expected_prefix # None /\ expected_prefix[1] \in DOMAIN buf

\* The chunk is among the items OrderedStream yielded.
Emitted(item) ==
    \E i \in 1..Len(out) : out[i].kind = "chunk" /\ out[i].seq = item.seq

TookError ==
    /\ delivered' = delivered
    /\ Len(chan') < Len(chan)
    /\ \E i \in 1..Len(Taken) : Taken[i].kind = "err"

\* The prefixes of the chunks a step took from the upstream before the last
\* item it took.
TakenBeforeLast == {Taken[i].prefix : i \in 1..(Len(Taken) - 1)}

\* C27: a demand that takes an error from the upstream takes nothing after
\* it and yields that error as DownloadError; expected_prefix stays, and buf
\* changes by nothing but the chunks the demand took before the error: every
\* chunk that was in buf stays, and buf is unchanged when the error is the
\* first item the demand takes.
C27_UpstreamErrorWrapped ==
    [][TookError =>
          /\ Taken[Len(Taken)].kind = "err"
          /\ \A i \in 1..(Len(Taken) - 1) : Taken[i].kind = "chunk"
          /\ Yields
          /\ Yielded = [kind |-> "DownloadError",
                        prefix |-> Taken[Len(Taken)].prefix,
                        seq |-> Taken[Len(Taken)].seq]
          /\ expected_prefix' = expected_prefix
          /\ DOMAIN buf' = DOMAIN buf \cup TakenBeforeLast
          /\ \A k \in DOMAIN buf \ TakenBeforeLast : buf'[k] = buf[k]
          /\ Len(Taken) = 1 => buf' = buf]_vars

\* C27 witness: the first demand buffered a chunk and yielded the upstream's
\* error; the later demands emitted the expected chunk and then the
\* buffered one.
C27_Witness ==
    /\ Len(out) = 3
    /\ out[1].kind = "DownloadError"
    /\ out[1].seq = 2
    /\ out[2].kind = "chunk"
    /\ out[3].kind = "chunk"
    /\ out[3].seq = 1

\* The step is a poll of OrderedStream that changes its state: it yields
\* an item, takes items from the upstream, or leaves the demand pending or
\* the stream ended.
PollStep ==
    \/ out' # out
    \/ osState' # osState
    \/ delivered' = delivered /\ chan' # chan

\* The step is a poll that finds the upstream empty and not ended.
PollOnSilentUpstream == PollStep /\ chan = << >> /\ ~chanClosed

\* The last item the consumer was given is a chunk.
LastYieldWasChunk == out # << >> /\ out[Len(out)].kind = "chunk"

\* The smallest key of a buffer that is not empty.
MinKey(b) == CHOOSE k \in DOMAIN b : \A j \in DOMAIN b : k <= j

\* C28 (as claimed, its last part): once a demand has completed with a
\* chunk, the chunks that are in buf are emitted in ascending order by the
\* later demands without further upstream input: a demand made while buf is
\* not empty and the upstream has nothing ready yields the chunk of the
\* smallest key of buf.
C28_BufferedEmittedWithoutInput ==
    [][(PollOnSilentUpstream /\ osState = "idle" /\ LastYieldWasChunk
          /\ buf # << >>) =>
          /\ Yields
          /\ Yielded.kind = "chunk"
          /\ Yielded.prefix = MinKey(buf)]_vars

\* C28 (amended): a demand made while the expected chunk is not in buf takes
\* the upstream's chunks up to the first that is the expected one; it
\* buffers the others and yields nothing while the upstream stays open and
\* silent, and it yields the expected chunk once it takes it. A demand made
\* while the expected chunk is in buf yields that chunk and takes nothing
\* from the upstream; a demand made while buf holds chunks but not the
\* expected one, on a silent upstream, is left pending.
C28_BufferedEmittedWhenExpected ==
    /\ [][(PollStep /\ ExpectedBuffered) =>
             /\ Yields
             /\ Yielded.kind = "chunk"
             /\ Yielded.prefix = expected_prefix[1]
             /\ Yielded.seq = buf[expected_prefix[1]].seq
             /\ chan' = chan
             /\ buf' = [k \in DOMAIN buf \ {expected_prefix[1]} |-> buf[k]]]_vars
    /\ [][(PollStep /\ delivered' = delivered /\ ~ExpectedBuffered
             /\ expected_prefix # None /\ ~chanClosed
             /\ \A i \in 1..Len(chan) :
                   chan[i].kind = "chunk"
                     /\ chan[i].prefix # expected_prefix[1]) =>
             /\ out' = out
             /\ osState' = "pending"
             /\ chan' = << >>
             /\ DOMAIN buf' = DOMAIN buf \cup {chan[i].prefix : i \in 1..Len(chan)}]_vars
    /\ [][(PollStep /\ delivered' = delivered /\ ~ExpectedBuffered
             /\ expected_prefix # None /\ Len(chan') < Len(chan)
             /\ Taken[Len(Taken)].kind = "chunk"
             /\ Taken[Len(Taken)].prefix = expected_prefix[1]) =>
             /\ Yields
             /\ Yielded.kind = "chunk"
             /\ Yielded.seq = Taken[Len(Taken)].seq
             /\ \A i \in 1..(Len(Taken) - 1) :
                   Taken[i].kind = "chunk" /\ Taken[i].prefix \in DOMAIN buf']_vars

\* C28 witness: the expected chunk reached the upstream third; it was
\* emitted, then its successor out of buf without any further upstream
\* input, and the demand after that is pending on a gap while the third
\* chunk stays in buf.
C28_Witness ==
    /\ Len(delivered) = 3
    /\ chan = << >>
    /\ Len(out) = 2
    /\ out[1].kind = "chunk" /\ out[1].seq = 3
    /\ out[2].kind = "chunk" /\ out[2].seq < 3
    /\ osState = "pending"
    /\ Cardinality(DOMAIN buf) = 1
    /\ expected_prefix # None
    /\ \A k \in DOMAIN buf : k > expected_prefix[1]

\* The chunks the upstream delivered so far have pairwise distinct prefixes.
DeliveredDistinct ==
    \A i, j \in 1..Len(delivered) :
        (delivered[i].kind = "chunk" /\ delivered[j].kind = "chunk"
           /\ delivered[i].prefix = delivered[j].prefix) => i = j

\* The chunks OrderedStream has received (taken) from the upstream.
Received ==
    {delivered[i] : i \in {j \in 1..(Len(delivered) - Len(chan)) :
                              delivered[j].kind = "chunk"}}

\* How many times the chunk was emitted.
TimesEmitted(item) ==
    Cardinality({i \in 1..Len(out) :
                    out[i].kind = "chunk" /\ out[i].seq = item.seq})

\* The chunk is held in buf.
Buffered(item) == item.prefix \in DOMAIN buf /\ buf[item.prefix] = item

\* The received chunks that were neither emitted nor are in buf.
Dropped == {item \in Received : TimesEmitted(item) = 0 /\ ~Buffered(item)}

\* How many Discontinuous errors OrderedStream has yielded.
DiscontinuousCount ==
    Cardinality({i \in 1..Len(out) : out[i].kind = "Discontinuous"})

\* C29 (as claimed): fed pairwise distinct prefixes, every received chunk is
\* either emitted exactly once or held in buf, never both and never neither.
C29_EmittedOnceOrBuffered ==
    DeliveredDistinct =>
        \A item \in Received :
            /\ TimesEmitted(item) <= 1
            /\ (TimesEmitted(item) = 1) # Buffered(item)

\* C29 (amended): fed pairwise distinct prefixes, no received chunk is
\* emitted twice, none is both emitted and held in buf, and the chunks that
\* are neither are those received after expected_prefix became None: each
\* was answered with one Discontinuous error.
C29_EmittedOnceBufferedOrRefused ==
    DeliveredDistinct =>
        /\ \A item \in Received :
              /\ TimesEmitted(item) <= 1
              /\ ~(TimesEmitted(item) = 1 /\ Buffered(item))
        /\ Cardinality(Dropped) = DiscontinuousCount
        /\ Dropped # {} =>
              /\ expected_prefix = None
              /\ \E i \in 1..Len(out) :
                    out[i].kind = "chunk" /\ out[i].prefix = MAX_PREFIX

\* C29 witness: of three chunks of distinct prefixes one was emitted (the
\* maximum prefix), one is held in buf and one was refused with
\* Discontinuous.
C29_Witness ==
    /\ DeliveredDistinct
    /\ Cardinality(Received) = 3
    /\ Cardinality(Dropped) = 1
    /\ Cardinality(DOMAIN buf) = 1
    /\ Len(out) = 2
    /\ out[1].kind = "chunk"
    /\ out[2].kind = "Discontinuous"

(* ------------------------ Downloader: properties ---------------------- *)

\* How many prefixes the pipeline's iterator yields in all.
IterLength == MAX_PREFIX - first_expected_prefix + 1

AllWorkersDone ==
    /\ spawned = max_spawns
    /\ \A w \in Spawned : pc[w] = "done"

\* C5: with at least one worker and a finite iterator, whenever every worker
\* has exited the channel is closed, and a consumer that keeps reading
\* observes the end of the stream.
C5_StreamEnds ==
    /\ [](max_spawns >= 1 /\ AllWorkersDone => chanClosed)
    /\ (max_spawns >= 1) ~> (cons = "eos" /\ AllWorkersDone)

\* C5 witness: the consumer saw the end after the chunks of a whole
\* two-prefix iterator, which two workers shared.
C5_Witness ==
    /\ cons = "eos"
    /\ max_spawns = 2
    /\ Len(recvd) = 2
    /\ \A i \in 1..Len(recvd) : recvd[i].kind = "chunk"
    /\ \E i, j \in 1..Len(dequeued) : dequeued[i].by # dequeued[j].by

\* The worker has left its loop.
Exited(w) == pc[w] \in {"exit", "final", "done"}

\* The channel was handed an error item for the prefix worker w holds.
ErrEnqueued(w) ==
    \E i \in 1..Len(delivered) :
        delivered[i].kind = "err" /\ Some(delivered[i].prefix) = held[w]

\* C6 (as claimed): a worker that left its loop on an error of any kind (a
\* failed request, a failed parse, a failed send) has sent the error into
\* the channel and closed the channel.
C6_ErrorSentAndClosed ==
    \A w \in Tasks :
        (Exited(w) /\ cause[w] \in {"FetchError", "SendError"}) =>
            ErrEnqueued(w) /\ chanClosed

\* C6 (amended): a worker that left its loop on a failed request or parse
\* has closed the channel and has sent the error into it exactly when the
\* channel was still open; a worker that left on a failed send has sent no
\* error (the channel was closed already).
C6_FetchErrorSentAndClosed ==
    \A w \in Tasks :
        /\ (Exited(w) /\ cause[w] = "FetchError") =>
               chanClosed /\ (ErrEnqueued(w) <=> ~sawClosed[w])
        /\ (Exited(w) /\ cause[w] = "SendError") =>
               chanClosed /\ sawClosed[w] /\ ~ErrEnqueued(w)

\* C6 witness: one worker left on a failed fetch and its error is in the
\* channel's history, another left on a failed send.
C6_Witness ==
    \E v, w \in Tasks :
        /\ Exited(v) /\ cause[v] = "FetchError" /\ ErrEnqueued(v)
        /\ Exited(w) /\ cause[w] = "SendError"

\* The workers that hold a dequeued prefix they have not finished handling.
InFlight == {w \in Tasks : pc[w] \in {"fetch", "send", "fail"}}

\* C7: at most max_spawns fetches are in flight.
C7_InFlightBounded == Cardinality(InFlight) <= max_spawns

\* C7 witness: two workers, both fetching.
C7_Witness ==
    /\ max_spawns = 2
    /\ Cardinality({w \in Tasks : pc[w] = "fetch"}) = 2

\* C8: every chunk placed on the channel carries a prefix that was taken
\* from the iterator, no two chunks carry the same prefix, and no prefix was
\* taken twice (by two workers, or twice by one).
C8_PrefixChunkBijection ==
    /\ \A i \in 1..Len(delivered) :
         delivered[i].kind = "chunk" =>
             /\ \E j \in 1..Len(dequeued) :
                  dequeued[j].prefix = delivered[i].prefix
             /\ \A k \in 1..Len(delivered) :
                  (delivered[k].kind = "chunk"
                     /\ delivered[k].prefix = delivered[i].prefix) => k = i
    /\ \A i, j \in 1..Len(dequeued) :
         dequeued[i].prefix = dequeued[j].prefix => i = j

\* C8 witness: two chunks on the channel, taken by two workers and sent in
\* another order than they were dequeued.
C8_Witness ==
    /\ Len(delivered) = 2
    /\ \A i \in 1..2 : delivered[i].kind = "chunk"
    /\ dequeued[1].by # dequeued[2].by
    /\ delivered[1].prefix # dequeued[1].prefix

\* C9: after the consumer dropped the stream no chunk enters the channel,
\* every worker takes at most one more prefix (its next send fails), and
\* every worker exits.
C9_DropStopsWorkers ==
    /\ [][cons = "dropped" => delivered' = delivered]_vars
    /\ [](\A w \in Tasks : deqAfterDrop[w] <= 1)
    /\ (cons = "dropped") ~> AllWorkersDone

\* C9 witness: the stream was dropped, every worker has exited, one of them
\* on a failed send of a prefix it took after the drop, and the iterator is
\* not exhausted.
C9_Witness ==
    /\ cons = "dropped"
    /\ AllWorkersDone
    /\ iterNext # None
    /\ \E w \in Tasks : cause[w] = "SendError" /\ deqAfterDrop[w] = 1

\* Worker w holds a prefix that it took from the iterator and whose chunk
\* it has not sent.
HoldsUnsent(w) == pc[w] \in {"fetch", "send"}

\* C20: when no fetch fails and the consumer stays, the channel is never
\* closed while a worker holds a dequeued prefix whose chunk is not sent, no
\* send fails, and at the end of the stream the consumer has received a chunk
\* for every prefix the iterator yielded (all of them if a worker ran).
C20_NoCloseWhileHolding ==
    /\ chanClosed => \A w \in Tasks : ~HoldsUnsent(w)
    /\ \A w \in Tasks : cause[w] # "SendError"
    /\ cons = "eos" =>
          /\ \A i \in 1..Len(dequeued) :
                \E j \in 1..Len(recvd) :
                    recvd[j].kind = "chunk" /\ recvd[j].prefix = dequeued[i].prefix
          /\ Len(recvd) = Len(dequeued)
          /\ max_spawns >= 1 => iterNext = None

\* C20 witness: a worker found the iterator exhausted, decremented, made its
\* zero-check and completed while another still held an unsent prefix; the
\* channel is open.
C20_Witness ==
    /\ ~chanClosed
    /\ \E a, b \in Tasks :
          /\ pc[a] = "done"
          /\ cause[a] = "exhausted"
          /\ HoldsUnsent(b)

\* The positions of the error items among the items the channel accepted.
ErrPositions == {i \in 1..Len(delivered) : delivered[i].kind = "err"}

\* The workers whose fetch failed.
FailedWorkers == {w \in Tasks : cause[w] = "FetchError"}

\* C21: the channel accepts at most one error item and nothing after it, so
\* the stream carries at most one error and that error is its last item,
\* however many workers fail and in whatever order they run.
C21_OneErrorLast ==
    /\ Cardinality(ErrPositions) <= 1
    /\ \A i \in ErrPositions : i = Len(delivered)
    /\ \A i \in 1..Len(recvd) : recvd[i].kind = "err" => i = Len(recvd)

\* C21 witness: two workers failed and both have completed; the channel
\* took one error, which the consumer received last before the end.
C21_Witness ==
    /\ Cardinality(FailedWorkers) = 2
    /\ \A w \in FailedWorkers : pc[w] = "done"
    /\ Cardinality(ErrPositions) = 1
    /\ cons = "eos"
    /\ recvd # << >>
    /\ recvd[Len(recvd)].kind = "err"

\* Worker w left its loop by a break of the Ok or the Err arm.
LeftAtPush(w) == pc[w] = "exit" /\ cause[w] \in {"SendError", "FetchError"}

\* C22: once a worker has run close_channel, every other worker takes at
\* most one further prefix from the iterator, and a worker that holds a
\* prefix leaves its loop at its next push (of the chunk or of its own
\* error): it never returns to the iterator.
C22_OneMoreDequeueAfterClose ==
    /\ [](\A w \in Tasks : deqAfterClose[w] <= 1)
    /\ [][\A w \in Tasks :
             (FailFastClosed /\ pc[w] \in {"send", "fail"} /\ pc'[w] # pc[w])
                 => LeftAtPush(w)']_vars

\* C22 witness: after one worker's close_channel another worker took a
\* prefix, its push failed and it left its loop; the iterator is not
\* exhausted.
C22_Witness ==
    /\ FailFastClosed
    /\ iterNext # None
    /\ \E w \in Tasks :
          /\ deqAfterClose[w] = 1
          /\ cause[w] = "SendError"
          /\ pc[w] = "done"

\* C30: a worker that fetches or sends (a chunk or its error) does not hold
\* the lock on the prefix iterator; the lock is held only by a worker that
\* is between its lock() and the end of the dequeue block, so a fetch that
\* lasts keeps no other worker from the iterator.
C30_NoLockAcrossFetch ==
    /\ \A w \in Tasks :
          pc[w] \in {"fetch", "send", "fail"} => prefixes_guard # Some(w)
    /\ prefixes_guard # None => pc[prefixes_guard[1]] = "locked"

\* C30 witness: a worker is still in the fetch of the first prefix taken
\* while another worker has taken the second prefix, sent its chunk and
\* holds the lock again.
C30_Witness ==
    \E a, b \in Tasks :
        /\ a # b
        /\ Len(dequeued) >= 2
        /\ dequeued[1].by = a
        /\ pc[a] = "fetch"
        /\ held[a] = Some(dequeued[1].prefix)
        /\ dequeued[2].by = b
        /\ \E i \in 1..Len(delivered) : delivered[i].prefix = dequeued[2].prefix
        /\ prefixes_guard = Some(b)

\* C37: a download with max_spawns = 0 spawns no worker, takes no prefix
\* from the iterator and sends nothing; once download() has returned the
\* channel is closed and empty, so the first demand of the consumer meets
\* the end of the stream and the consumer has received nothing, whatever
\* the iterator holds.
C37_NoWorkersEndsAtOnce ==
    /\ [](max_spawns = 0 =>
            /\ spawned = 0
            /\ dequeued = << >>
            /\ delivered = << >>
            /\ recvd = << >>
            /\ downloadDone => (chanClosed /\ chan = << >>))
    /\ [][(max_spawns = 0 /\ cons' # cons) => cons' = "eos"]_vars
    /\ [][max_spawns = 0 => iterNext' = iterNext]_vars

\* C37 witness: a download without workers over an iterator that holds two
\* prefixes has returned and its consumer has met the end of the stream.
C37_Witness ==
    /\ max_spawns = 0
    /\ downloadDone
    /\ cons = "eos"
    /\ iterNext = Some(MAX_PREFIX - 1)

(* ------------------------- exists: properties ------------------------- *)

\* How many whole records the file holds.
RecordCount == Len(fileData) \div RecordLen

\* The query is one of the file's records.
Present == \E i \in 0..(RecordCount - 1) : RecordAt(fileData, i) = x

\* C10: on a file of N >= 0 records in non-decreasing order exists returns
\* true if the query equals one of the records and false if it equals none.
C10_ExistsIffPresent ==
    exPc = "done" =>
        /\ exResult \in {"Ok(true)", "Ok(false)"}
        /\ exResult = "Ok(true)" <=> Present

\* C11: on a file whose length is not a multiple of 20 exists returns an
\* error, never true or false, whatever the query.
C11_TruncatedIsError ==
    (exPc = "done" /\ Len(fileData) % RecordLen # 0) => exResult = "Err"

\* a and b differ in their last byte only, by one.
ByteNeighbours(a, b) ==
    /\ \A i \in 1..(RecordLen - 1) : a[i] = b[i]
    /\ a[RecordLen] - b[RecordLen] \in {1, 0 - 1}

\* C10 witness: exists returned false on a file of three distinct records
\* for a query that is a byte-neighbour of one of them.
C10_Witness ==
    /\ exPc = "done"
    /\ exResult = "Ok(false)"
    /\ RecordCount = 3
    /\ \A i, j \in 0..2 : i # j => RecordAt(fileData, i) # RecordAt(fileData, j)
    /\ \E i \in 0..2 : ByteNeighbours(RecordAt(fileData, i), x)

\* The loop of exists is about to run an iteration.
Probing == exPc = "loop" /\ left < right

\* The loop of exists has run an iteration and is to run on.
LoopedOn == exPc = "loop" /\ exPc' = "loop" /\ iterations' = iterations + 1

\* C33: on every file and every query, in order or not, an iteration of the
\* loop that does not return makes right - left strictly smaller, right -
\* left is never negative and never more than N, at most N iterations run
\* (one, when N = 0, is none), and exists returns.
C33_SearchTerminates ==
    /\ [][LoopedOn => right' - left' < right - left]_vars
    /\ [](exPc = "loop" => (0 <= right - left /\ right - left <= RecordCount))
    /\ [](iterations <= RecordCount)
    /\ [](exPc # "done" => ENABLED NextEx)

\* C33 witness: exists returned false after two iterations on a file of
\* three records that are not in order.
C33_Witness ==
    /\ exPc = "done"
    /\ exResult = "Ok(false)"
    /\ iterations = 2
    /\ RecordCount = 3
    /\ Cmp(RecordAt(fileData, 0), RecordAt(fileData, 1)) = "Greater"

\* C34: before every iteration the index to probe is within the range,
\* left <= mid < right <= N with N = len / 20 rounded down, the 20 bytes
\* read lie within the file's whole records, and no read fails.
C34_ProbeWithinRecords ==
    /\ Probing =>
          /\ left <= Mid(left, size)
          /\ Mid(left, size) < right
          /\ right <= RecordCount
          /\ size = right - left
          /\ Mid(left, size) * RecordLen + RecordLen <= RecordCount * RecordLen
    /\ exResult # "Err"

\* C34 witness: the last record of a file that ends in a cut record is
\* about to be probed.
C34_Witness ==
    /\ Probing
    /\ Len(fileData) % RecordLen = RecordLen - 1
    /\ RecordCount = 3
    /\ Mid(left, size) = RecordCount - 1

\* The file's records are in non-decreasing order.
FileSorted ==
    \A i \in 0..(RecordCount - 2) :
        Cmp(RecordAt(fileData, i), RecordAt(fileData, i + 1)) # "Greater"

\* C35: whatever the order of the file's records, if exists returns true
\* then one of the file's whole records equals the query.
C35_NoFalsePositive == exResult = "Ok(true)" => Present

\* C35 witness: exists returned true on a file whose records are not in
\* order, after more than one probe.
C35_Witness ==
    /\ exResult = "Ok(true)"
    /\ ~FileSorted
    /\ iterations >= 2

\* An unsorted file gives a false negative: exists returned false although
\* the query is one of the records.
FalseNegative == exResult = "Ok(false)" /\ Present /\ ~FileSorted

(* -------------------------- save: properties -------------------------- *)

\* The temp path of DownloadThenReplace.
TempPath == IF download_path = None THEN DownloadTmp ELSE download_path[1]

\* DownloadThenReplace with a temp path that is not the final path.
TempDiffers ==
    existence_behaviour = "DownloadThenReplace" /\ TempPath # file_path

\* save has returned an error.
SaveFailed == savePc = "done" /\ saveResult = "Err"

\* The final path holds what it held when save was called, in every state of
\* a save that has not renamed yet and of one that failed.
FinalIntact ==
    (savePc \in {"open", "write"} \/ SaveFailed) =>
        fs[file_path] = fsBefore[file_path]

\* C12 as claimed: in DownloadThenReplace mode with a temp path that differs
\* from the final path, the final path holds its prior content in every state
\* of save before the rename succeeds, every failed state included, and a
\* save that failed (at open, write or flush) leaves the temp file behind.
C12_FinalIntactTempLeft ==
    TempDiffers =>
        /\ FinalIntact
        /\ (SaveFailed /\ failedAt \in {"remove", "create", "write", "flush"}) =>
               fs[TempPath] # None

\* C12 as amended: the final path holds its prior content as claimed; a save
\* that failed leaves the temp file behind unless it failed to create it.
C12_FinalIntactTempLeftOnceCreated ==
    TempDiffers =>
        /\ FinalIntact
        /\ (SaveFailed /\ failedAt # "create") => fs[TempPath] # None

\* C12 witness: a save over an old final file failed while writing; it left
\* bytes at the temp path.
C12_Witness ==
    /\ TempDiffers
    /\ SaveFailed
    /\ failedAt = "write"
    /\ fsBefore[file_path] = Some(OldRecord)
    /\ fs[file_path] = Some(OldRecord)
    /\ fs[TempPath] # None
    /\ fs[TempPath] # Some(<< >>)

\* a is b or the bytes b starts with.
IsBytePrefix(a, b) == Len(a) <= Len(b) /\ a = SubSeq(b, 1, Len(a))

\* The bytes of the whole stream, record after record.
StreamBytes == FileOf(records)

\* C13 as claimed: in RemoveOldThenCreateNew mode, after a save that failed
\* part-way through writing, no file exists at the final path.
C13_FailedDestructiveSaveLeavesNoFile ==
    (existence_behaviour = "RemoveOldThenCreateNew" /\ SaveFailed
         /\ failedAt = "write") =>
        fs[file_path] = None

\* C13 as amended: after such a save a file exists at the final path: the
\* newly created one, which holds some but not all of the stream's bytes, in
\* order from the first, not always whole records.
C13_FailedDestructiveSaveLeavesPart ==
    (existence_behaviour = "RemoveOldThenCreateNew" /\ SaveFailed
         /\ failedAt = "write") =>
        /\ fs[file_path] # None
        /\ IsBytePrefix(fs[file_path][1], StreamBytes)
        /\ Len(fs[file_path][1]) < Len(StreamBytes)

\* C13 witness: a destructive save over an old file failed while writing and
\* left a file that ends inside a record.
C13_Witness ==
    /\ existence_behaviour = "RemoveOldThenCreateNew"
    /\ SaveFailed
    /\ failedAt = "write"
    /\ fsBefore[file_path] = Some(OldRecord)
    /\ fs[file_path] # None
    /\ Len(fs[file_path][1]) % RecordLen # 0

\* C14: after a successful save of N records, in either behaviour and
\* whatever the temp path and the final path held, the final file's bytes are
\* the N records' sha1 bytes in stream order: 20 * N bytes.
C14_SavedFileIsStream ==
    (savePc = "done" /\ saveResult = "Ok") =>
        /\ fs[file_path] = Some(StreamBytes)
        /\ Len(fs[file_path][1]) = RecordLen * Len(records)

\* C14 witness: a save of two records, the greater first, succeeded where
\* both paths held an old file.
C14_Witness ==
    /\ savePc = "done"
    /\ saveResult = "Ok"
    /\ \A p \in Paths : fsBefore[p] = Some(OldRecord)
    /\ Len(records) = 2
    /\ Cmp(records[1], records[2]) = "Greater"

\* C15: after a second successful save of the same records on the same
\* store the final file is byte for byte what the first save left.
C15_SaveIdempotent ==
    (saves # << >> /\ savePc = "done" /\ saveResult = "Ok") =>
        fs[file_path] = saves[Len(saves)]

\* C15 witness: a destructive store has saved a non-empty stream twice.
C15_Witness ==
    /\ saves # << >>
    /\ savePc = "done"
    /\ saveResult = "Ok"
    /\ records # << >>
    /\ existence_behaviour = "RemoveOldThenCreateNew"

(* ------------------------- Prefix: properties ------------------------- *)

\* The greatest value of five hex digits.
FiveNibblesMax == 16 * 16 * 16 * 16 * 16 - 1

\* C16: create(v) is a prefix of value v if and only if v <= 0xFFFFF, none
\* otherwise; try_from accepts exactly the same values and returns OutOfRange
\* for the rest.
C16_CreateIffInRange ==
    /\ "create" \in pfDone =>
          /\ createResult # None <=> createArg <= FiveNibblesMax
          /\ createResult # None => createResult = Some(createArg)
    /\ "try_from" \in pfDone =>
          /\ tryFromResult[1] = "Ok" <=> createArg <= FiveNibblesMax
          /\ tryFromResult[1] = "Ok" => tryFromResult[2] = createArg
          /\ tryFromResult[1] # "Ok" => tryFromResult = << "Err", "OutOfRange" >>

\* C16 witness: create and try_from both accepted 0xFFFFF.
C16_Witness ==
    /\ pfDone = {"create", "try_from"}
    /\ createArg = FiveNibblesMax
    /\ createResult = Some(FiveNibblesMax)
    /\ tryFromResult = << "Ok", FiveNibblesMax >>

\* C17: an iterator started at s yields s, s + 1, ..., 0xFFFFF, each once and
\* in increasing order, then none on every call; once it has ended it has
\* yielded 2^20 - s prefixes (2^20 when started at 0).
C17_IteratorYieldsRange ==
    /\ \A i \in 1..Len(yielded) :
          yielded[i] = IF iterFrom + i - 1 <= FiveNibblesMax
                       THEN Some(iterFrom + i - 1)
                       ELSE None
    /\ (\E i \in 1..Len(yielded) : yielded[i] = None) =>
          Cardinality({i \in 1..Len(yielded) : yielded[i] # None})
              = FiveNibblesMax + 1 - iterFrom

\* C17 witness: an iterator has yielded more than one prefix and then none,
\* twice.
C17_Witness ==
    /\ Len(yielded) >= 4
    /\ yielded[1] # None
    /\ yielded[2] # None
    /\ yielded[Len(yielded) - 1] = None
    /\ yielded[Len(yielded)] = None

\* The high half of the mathematical sum self + v (not reduced modulo
\* 2^32); the sum is at most 0xFFFFF exactly when it is below 16.
SumHigh ==
    forwardArg[1] + (forwardSelf \div 65536)
        + ((forwardArg[2] + (forwardSelf % 65536)) \div 65536)

\* The low half of the sum self + v.
SumLow == (forwardArg[2] + (forwardSelf % 65536)) % 65536

\* C38 (as claimed): forward(v) and + v return the prefix of value self + v
\* exactly when the mathematical sum is at most 0xFFFFF and none otherwise,
\* also when the sum is beyond the u32 range.
C38_ForwardIffSumInRange ==
    "forward" \in pfDone =>
        forwardResult = IF SumHigh < 16
                        THEN Some(SumHigh * 65536 + SumLow)
                        ELSE None

\* forward returned a prefix although self + v is beyond the u32 range.
C38_WrappedToPrefix ==
    /\ "forward" \in pfDone
    /\ SumHigh >= 65536
    /\ forwardResult = Some(0)

\* The values create accepts (C16): 0, ..., 0xFFFFF; an iterator started at
\* 0 yields each of them once (C17).
ValidPrefixValues == 0..FiveNibblesMax

\* C39 (as claimed): count() is the number of valid prefix values, which is
\* the number of items an iterator started at 0 yields.
C39_CountIsNumberOfPrefixes ==
    "count" \in pfDone =>
        /\ \A v \in U32Samples : PrefixCreate(v) # None <=> v \in ValidPrefixValues
        /\ countResult = Cardinality(ValidPrefixValues)

(* -------------- OrderedStream of the crate root: properties ----------- *)

\* C40: a poll of the crate root's OrderedStream that took an item from its
\* upstream, so that the upstream did not report Pending and registered no
\* wake-up, does not return Pending; and no poll panics.
C40_PendingOnlyFromUpstreamAndNoPanic ==
    [][/\ Len(chan') < Len(chan) => osState' # "pending"
       /\ osState' # "panicked"]_vars

\* A poll has panicked: a chunk came after the chunk of the maximum prefix
\* was emitted and nothing was expected any more.
RootPanicked == osState = "panicked" /\ expected_prefix = None

\* A poll has buffered a chunk that was not the expected one and returned
\* Pending although its upstream was ready.
RootPendingOnReadyUpstream ==
    /\ osState = "pending"
    /\ buf # << >>
    /\ expected_prefix # None
    /\ expected_prefix[1] \notin DOMAIN buf

(* ---------------- calls at the same time: properties ------------------ *)

\* The file at the final path before the calls, and the file that the save
\* writes.
OldVersion == inodes[1]
NewVersion == FileOf(saver[1].records)

\* C31: at every seek and read of an exists that runs while a
\* DownloadThenReplace save runs on the same store, the file that exists
\* reads is one and the same complete version, the whole old content or the
\* whole new content.
C31_ReadsOneCompleteVersion ==
    /\ \A i \in 1..Len(seen) : seen[i].data \in {OldVersion, NewVersion}
    /\ \A i, j \in 1..Len(seen) : seen[i].data = seen[j].data

\* C31 witness: exists has read the old file twice after the save had
\* renamed the new file over it, and the two versions differ.
C31_Witness ==
    /\ exPc = "done"
    /\ Len(seen) >= 3
    /\ seen[2].published /\ seen[3].published
    /\ seen[3].data = OldVersion
    /\ OldVersion # NewVersion
    /\ NewVersion # << >>
    /\ Some(handle) # dir[file_path]

\* C32: when two saves run at the same time on stores of one directory with
\* the default temp path, the final file of each save that has returned Ok
\* holds the records of that save's stream and no others.
C32_EachFinalHoldsOwnStream ==
    \A s \in Savers :
        Published(s) =>
            /\ dir[saver[s].file_path] # None
            /\ inodes[dir[saver[s].file_path][1]] = FileOf(saver[s].records)

(* ------------------------ flatten: properties ------------------------- *)

\* The first 20 bits of a sha1.
First20Bits(sha1) == sha1[1] * 4096 + sha1[2] * 16 + (sha1[3] \div 16)

\* The records flattened so far are in non-decreasing order within every
\* chunk.
ChunksSortedWithin ==
    \A i, j \in 1..Len(flat) :
        (i < j /\ flat[i].prefix = flat[j].prefix) =>
            Cmp(flat[i].sha1, flat[j].sha1) # "Greater"

\* C36: every record carries its chunk's prefix in its first 20 bits, a
\* record of an earlier chunk is smaller than every record of a later
\* chunk, and the flattened records are in non-decreasing order whenever
\* they are so within every chunk.
C36_FlattenedAscending ==
    /\ \A i \in 1..Len(flat) :
          Len(flat[i].sha1) = RecordLen /\ First20Bits(flat[i].sha1) = flat[i].prefix
    /\ \A i, j \in 1..Len(flat) :
          (i < j /\ flat[i].prefix # flat[j].prefix) =>
              /\ flat[i].prefix < flat[j].prefix
              /\ Cmp(flat[i].sha1, flat[j].sha1) = "Less"
    /\ ChunksSortedWithin =>
          \A i \in 1..(Len(flat) - 1) :
              Cmp(flat[i].sha1, flat[i + 1].sha1) # "Greater"

\* C36 witness: two chunks of two records each were flattened; the first
\* chunk ends with a record whose 21st to 24th bits are F and the second
\* starts with one where they are 0.
C36_Witness ==
    /\ Len(flat) = 4
    /\ chunks = << >>
    /\ ChunksSortedWithin
    /\ flat[2].prefix + 1 = flat[3].prefix
    /\ flat[2].sha1[3] % 16 = 15
    /\ flat[3].sha1[3] % 16 = 0

(* ------------------------- parse: properties -------------------------- *)

\* The hex digits, by value: 0..9, A..F and a..f.
UpperHexDigits == << 48, 49, 50, 51, 52, 53, 54, 55, 56, 57, 65, 66, 67, 68, 69, 70 >>

LowerHexDigits == << 48, 49, 50, 51, 52, 53, 54, 55, 56, 57, 97, 98, 99, 100, 101, 102 >>

IsHexDigit(c) == \E n \in 1..16 : UpperHexDigits[n] = c \/ LowerHexDigits[n] = c

\* The nibble a hex digit stands for.
NibbleOf(c) ==
    (CHOOSE n \in 1..16 : UpperHexDigits[n] = c \/ LowerHexDigits[n] = c) - 1

\* The bytes after the separator.
LineTail == SubSeq(line, 37, Len(line))

\* The line is 35 hex digits, a ':' and a decimal u32.
WellFormedLine ==
    /\ Len(line) >= 37
    /\ \A i \in 1..35 : IsHexDigit(line[i])
    /\ line[36] = Colon
    /\ LineTail \in SmallDecimals \cup {U32MaxDigits}

\* The 40 nibbles of 20 bytes.
Sha1Nibbles(sha1) ==
    [i \in 1..(2 * Len(sha1)) |->
        IF i % 2 = 1 THEN sha1[(i + 1) \div 2] \div 16 ELSE sha1[i \div 2] % 16]

\* The 5 nibbles of a prefix.
PrefixNibbles(p) ==
    << (p \div 65536) % 16, (p \div 4096) % 16, (p \div 256) % 16,
       (p \div 16) % 16, p % 16 >>

\* The number that decimal digits stand for.
RECURSIVE DecimalValue(_)
DecimalValue(ds) ==
    IF ds = << >> THEN 0
    ELSE DecimalValue(SubSeq(ds, 1, Len(ds) - 1)) * 10 + (ds[Len(ds)] - 48)

\* C18: for every prefix p and every line of 35 hex digits, a ':' and a
\* decimal u32, parse succeeds; the 40 nibbles of its sha1 are the 5 nibbles
\* of p and then the line's 35, and its count is the number after the ':'.
C18_ParseWellFormedLine ==
    (parseResult.kind # "none" /\ WellFormedLine) =>
        /\ parseResult.kind = "Ok"
        /\ Len(parseResult.sha1) = RecordLen
        /\ Sha1Nibbles(parseResult.sha1)
               = PrefixNibbles(parserPrefix) \o [i \in 1..35 |-> NibbleOf(line[i])]
        /\ LineTail \in SmallDecimals =>
               parseResult.count[1] * 65536 + parseResult.count[2]
                   = DecimalValue(LineTail)
        /\ LineTail = U32MaxDigits => parseResult.count = << 65535, 65535 >>

\* C18 witness: the parser of 0x21BD4 parsed a line that starts with a
\* lower-case digit and has the count 0.
C18_Witness ==
    /\ parseResult.kind = "Ok"
    /\ parserPrefix = 138196
    /\ line[1] = 102
    /\ LineTail = << 48 >>
    /\ parseResult.count = << 0, 0 >>
    /\ parseResult.sha1[1] = 33

\* C19: parse returns InvalidStringLength for a line shorter than 37 bytes
\* and InvalidString for a longer one whose byte of index 35 is not ':',
\* whatever else is wrong with the line, and it returns every error as a
\* value.
C19_LengthThenSeparator ==
    parseResult.kind # "none" =>
        /\ parseResult.kind \in {"Ok", "Err"}
        /\ Len(line) < 37 => parseResult = ParseErr("InvalidStringLength", 0)
        /\ (Len(line) >= 37 /\ line[36] # Colon) =>
               parseResult = ParseErr("InvalidString", 0)

\* C19 witness: InvalidString was returned for a line that has neither a hex
\* digit first nor a number last.
C19_Witness ==
    /\ parseResult = ParseErr("InvalidString", 0)
    /\ line[1] = 71
    /\ ~IsHexDigit(line[3])
    /\ LineTail = << 120 >>

====
